---- MODULE Spec2Model ----
(***************************************************************************)
(* Deliberation engine of wizengamot: the three-stage council pipeline of  *)
(* backend/synthesizer.py (generate_zettels_deliberation), the parallel     *)
(* fan-out of backend/openrouter.py (query_models_parallel) and the         *)
(* streamed variant of backend/main.py (send_message_stream).               *)
(***************************************************************************)
EXTENDS Integers, Sequences, FiniteSets, TLC

(***************************************************************************)
(* Bounds of the model.                                                     *)
(***************************************************************************)
\* longest council model list passed to generate_zettels_deliberation
MaxCouncil == 2

\* segments of a dialogue script
MaxSegments == 2

\* reactions added to a session by other requests
MaxReactions == 1

\* message requests in flight on one conversation
MaxRequests == 2

(***************************************************************************)
(* Generic helpers.                                                         *)
(***************************************************************************)
Range(s) == { s[i] : i \in 1..Len(s) }

RECURSIVE SumSeq(_)
SumSeq(s) == IF s = <<>> THEN 0 ELSE Head(s) + SumSeq(Tail(s))

RECURSIVE FlattenSeq(_)
FlattenSeq(ss) == IF ss = <<>> THEN <<>> ELSE Head(ss) \o FlattenSeq(Tail(ss))

\* index of the first occurrence of x in s, 0 when absent
FirstIndex(s, x) ==
    IF \E i \in 1..Len(s) : s[i] = x
    THEN CHOOSE i \in 1..Len(s) : s[i] = x /\ \A j \in 1..(i - 1) : s[j] # x
    ELSE 0

\* index of the last occurrence of x in s, 0 when absent
LastIndex(s, x) ==
    IF \E i \in 1..Len(s) : s[i] = x
    THEN CHOOSE i \in 1..Len(s) : s[i] = x /\ \A j \in (i + 1)..Len(s) : s[j] # x
    ELSE 0

(***************************************************************************)
(* Texts.  A Stage-1 or chairman text is a sequence of lines, each line one *)
(* of the kinds parse_zettels tells apart:                                  *)
(*   "T"  a title line          "# Title"                                   *)
(*   "G"  a tags-only line      "#tag1 #tag2"                               *)
(*   "B"  any other non-blank line                                          *)
(*   "E"  a blank line                                                      *)
(* The empty sequence is the empty string.                                  *)
(***************************************************************************)
IsBlank(line) == line = "E"

IsTitle(line) == line = "T"

IsTagsOnly(line) == line = "G"

\* str.strip() of a section: leading and trailing blank lines go
RECURSIVE StripFront(_)
StripFront(s) ==
    IF s = <<>> THEN <<>>
    ELSE IF IsBlank(Head(s)) THEN StripFront(Tail(s)) ELSE s

RECURSIVE StripBack(_)
StripBack(s) ==
    IF s = <<>> THEN <<>>
    ELSE IF IsBlank(s[Len(s)]) THEN StripBack(SubSeq(s, 1, Len(s) - 1)) ELSE s

Strip(s) == StripBack(StripFront(s))

\* re.split(r'\n(?=# [^#\n])', raw_text): a new section starts at every
\* title line that is not the first line of the text
RECURSIVE SplitSections(_, _)
SplitSections(lines, cur) ==
    IF lines = <<>> THEN << cur >>
    ELSE IF IsTitle(Head(lines)) /\ cur # <<>>
         THEN << cur >> \o SplitSections(Tail(lines), << Head(lines) >>)
         ELSE SplitSections(Tail(lines), Append(cur, Head(lines)))

\* index in 2..Len(lines) of the first non-blank line after the title, 0 if none
FirstNonBlankAfterTitle(lines) ==
    IF \E i \in 2..Len(lines) : ~IsBlank(lines[i])
    THEN CHOOSE i \in 2..Len(lines) :
             ~IsBlank(lines[i]) /\ \A j \in 2..(i - 1) : IsBlank(lines[j])
    ELSE 0

\* one section of parse_zettels: <<note>> or <<>> when the section is dropped
ParseSection(section) ==
    LET s == Strip(section)
    IN  IF s = <<>> THEN <<>>
        ELSE IF ~IsTitle(s[1]) THEN <<>>
        ELSE LET k == FirstNonBlankAfterTitle(s)
                 hasTags == k # 0 /\ IsTagsOnly(s[k])
                 bodyStart == IF k = 0 THEN 2 ELSE IF hasTags THEN k + 1 ELSE k
                 body == SelectSeq(SubSeq(s, bodyStart, Len(s)),
                                   LAMBDA l : ~IsBlank(l))
             IN  IF body = <<>> THEN <<>>
                 ELSE << [tags |-> hasTags, body |-> Len(body)] >>

RECURSIVE ParseSections(_)
ParseSections(sections) ==
    IF sections = <<>> THEN <<>>
    ELSE ParseSection(Head(sections)) \o ParseSections(Tail(sections))

\* parse_zettels(raw_text): the notes of a text, numbered note-1, note-2, ...
parse_zettels(raw_text) ==
    LET ns == ParseSections(SplitSections(raw_text, <<>>))
    IN  [i \in 1..Len(ns) |-> [id |-> i, tags |-> ns[i].tags, body |-> ns[i].body]]

(***************************************************************************)
(* Ranking texts.  A Stage-2 text is a sequence of lines, each a record     *)
(*   [k |-> "P", l |-> 0]   prose                                           *)
(*   [k |-> "M", l |-> 0]   the marker line "FINAL RANKING:"                *)
(*   [k |-> "R", l |-> i]   a numbered line "N. Response X", X the i-th     *)
(*                          label chr(64 + i)                               *)
(***************************************************************************)
Prose == [k |-> "P", l |-> 0]

Marker == [k |-> "M", l |-> 0]

RankLine(i) == [k |-> "R", l |-> i]

\* a sequence without its repeated elements, first occurrence kept
RECURSIVE Dedupe(_, _)
Dedupe(s, seen) ==
    IF s = <<>> THEN <<>>
    ELSE IF Head(s) \in seen THEN Dedupe(Tail(s), seen)
         ELSE << Head(s) >> \o Dedupe(Tail(s), seen \cup { Head(s) })

\* council.parse_ranking_from_text(ranking_text): the labels of the numbered
\* lines after the last marker, in order of appearance, each once
parse_ranking_from_text(ranking_text) ==
    LET m == LastIndex(ranking_text, Marker)
        after == SubSeq(ranking_text, m + 1, Len(ranking_text))
        ranked == SelectSeq(after, LAMBDA ln : ln.k = "R")
    IN  IF m = 0 THEN <<>>
        ELSE Dedupe([i \in 1..Len(ranked) |-> ranked[i].l], {})

\* the positions (1-based) one rater gave to a label: a one-element or empty sequence
PositionsFrom(parsed, label) ==
    LET p == FirstIndex(parsed, label) IN IF p = 0 THEN <<>> ELSE << p >>

\* all positions a label received over the Stage-2 results
PositionsOf(stage2_results, label) ==
    FlattenSeq([i \in 1..Len(stage2_results) |->
                   PositionsFrom(stage2_results[i].parsed_ranking, label)])

\* a ranks before b: average position ascending, then votes descending, then
\* Stage-1 order; averages sa/va and sb/vb are compared exactly
RanksBefore(sa, va, a, sb, vb, b) ==
    \/ sa * vb < sb * va
    \/ sa * vb = sb * va /\ va > vb
    \/ sa * vb = sb * va /\ va = vb /\ a < b

\* council.calculate_aggregate_rankings(stage2_results, label_to_model):
\* one entry [model, sum, votes] per ranked label of the map (average
\* position = sum / votes), sorted
calculate_aggregate_rankings(stage2_results, l2m) ==
    LET pos(l) == PositionsOf(stage2_results, l)
        ranked == { l \in 1..Len(l2m) : pos(l) # <<>> }
        s(l) == SumSeq(pos(l))
        v(l) == Len(pos(l))
        place(l) == 1 + Cardinality({ b \in ranked :
                          RanksBefore(s(b), v(b), b, s(l), v(l), l) })
        at(p) == CHOOSE l \in ranked : place(l) = p
    IN  [p \in 1..Cardinality(ranked) |->
            [model |-> l2m[at(p)], sum |-> s(at(p)), votes |-> v(at(p))]]

(***************************************************************************)
(* Model-query calls.  A call is idle, running, or done with the value      *)
(* query_model returned: None (ok = FALSE) or a response dict whose         *)
(* 'content' is a text or null (isnull) and whose 'generation_id' is gid    *)
(* (0 when the payload had no id).                                          *)
(***************************************************************************)
Idle == [st |-> "idle", ok |-> FALSE, isnull |-> FALSE, text |-> <<>>, gid |-> 0]

Running == [st |-> "running", ok |-> FALSE, isnull |-> FALSE, text |-> <<>>, gid |-> 0]

\* query_model returned None
Failure == [st |-> "done", ok |-> FALSE, isnull |-> FALSE, text |-> <<>>, gid |-> 0]

\* query_model returned {'content': text, 'generation_id': gid}
Response(text, gid) ==
    [st |-> "done", ok |-> TRUE, isnull |-> FALSE, text |-> text, gid |-> gid]

\* query_model returned {'content': None, 'generation_id': gid}
NullResponse(gid) ==
    [st |-> "done", ok |-> TRUE, isnull |-> TRUE, text |-> <<>>, gid |-> gid]

\* texts a council model or the chairman may answer with
NoteTexts == { <<>>, << "B" >>, << "T", "G", "B" >>, << "E", "T", "B", "E", "T" >> }

\* what the i-th Stage-1 call may return
Stage1Outcomes(i) ==
    { Failure, NullResponse(10 + i), Response(<< "T", "B" >>, 0) }
        \cup { Response(t, 10 + i) : t \in NoteTexts }

\* texts a rater may answer with
RankingTexts ==
    { << Prose >>,
      << Prose, Marker, RankLine(1), RankLine(2) >>,
      << Marker, RankLine(2), RankLine(1) >>,
      << Marker, RankLine(1), Prose >>,
      << RankLine(1), Marker, Prose >> }

\* what the i-th Stage-2 call may return
Stage2Outcomes(i) ==
    { Failure, NullResponse(20 + i) } \cup { Response(t, 20 + i) : t \in RankingTexts }

\* what the chairman call may return
ChairmanOutcomes ==
    { Failure, NullResponse(30), Response(<< "T", "G", "B" >>, 30), Response(<< "B" >>, 30) }

(***************************************************************************)
(* Inputs of generate_zettels_deliberation.                                 *)
(***************************************************************************)
\* settings.get_council_models(): the configured default pool
DefaultCouncil == << 1, 2 >>

\* model lists up to renaming of the models: the k-th new model is named k
IsCanonical(s) ==
    \A i \in 1..Len(s) : \A m \in 1..(s[i] - 1) : \E j \in 1..(i - 1) : s[j] = m

CouncilLists ==
    { s \in UNION { [1..n -> 1..MaxCouncil] : n \in 0..MaxCouncil } : IsCanonical(s) }

\* the council_models argument: None (given = FALSE) or a list
CouncilArgs ==
    { [given |-> FALSE, list |-> <<>>] } \cup { [given |-> TRUE, list |-> l] : l \in CouncilLists }

(***************************************************************************)
(* query_models_parallel and the per-stage processing.                      *)
(***************************************************************************)
\* a join that also returns as soon as one call has failed
AllDone_UntilFirstFailure(calls) ==
    \/ \A i \in 1..Len(calls) : calls[i].st = "done"
    \/ \E i \in 1..Len(calls) : calls[i].st = "done" /\ ~calls[i].ok

\* asyncio.gather(*tasks) returns once every task is done
AllDone(calls) == \A i \in 1..Len(calls) : calls[i].st = "done"

\* {model: response for model, response in zip(models, responses)}: a dict
\* iterates its keys in first-insertion order and keeps the last value
ZipDict(models, responses) ==
    LET keys == Dedupe(models, {})
    IN  [i \in 1..Len(keys) |->
            [model |-> keys[i], response |-> responses[LastIndex(models, keys[i])]]]

\* "Error: Model failed to respond" as a Stage-1 raw text
ErrorRaw == << "Error: Model failed to respond" >>

\* "(No notes generated)"
NoNotesText == << "(No notes generated)" >>

\* "Error: Model failed to respond" as a Stage-2 ranking text
ErrorRanking == << [k |-> "Error: Model failed to respond", l |-> 0] >>

\* parse_zettels / parse_ranking_from_text raise TypeError on a null content
RaisesOnNull(dict) == \E i \in 1..Len(dict) : dict[i].response.ok /\ dict[i].response.isnull

\* the generation ids of the responses that carry one, in dict order
GenerationIds(dict) ==
    LET has == SelectSeq(dict, LAMBDA e : e.response.ok /\ e.response.gid # 0)
    IN  [i \in 1..Len(has) |-> has[i].response.gid]

\* synthesizer.py 338-360: one Stage-1 entry per dict item
Stage1Results(dict) ==
    [i \in 1..Len(dict) |->
        IF dict[i].response.ok
        THEN [model |-> dict[i].model,
              notes |-> parse_zettels(dict[i].response.text),
              raw |-> dict[i].response.text]
        ELSE [model |-> dict[i].model, notes |-> <<>>, raw |-> ErrorRaw]]

\* the check of an empty result list instead of the notes
NoNotesAtAll_EmptyList(stage1) == stage1 = <<>>

\* synthesizer.py 363: not any(r["notes"] for r in stage1_results)
NoNotesAtAll(stage1) == ~ \E i \in 1..Len(stage1) : stage1[i].notes # <<>>

\* labels handed out from the last Stage-1 entry to the first
LabelToModel_Reversed(stage1) ==
    [i \in 1..Len(stage1) |-> stage1[Len(stage1) + 1 - i].model]

\* synthesizer.py 380-384: label chr(65 + i) for the i-th Stage-1 entry;
\* the map is the sequence of models, the i-th label at index i
LabelToModel(stage1) == [i \in 1..Len(stage1) |-> stage1[i].model]

\* synthesizer.py 387-391: the "Response X:\n{notes_text}" parts
ResponsesParts(stage1) ==
    [i \in 1..Len(stage1) |->
        [label |-> i,
         text |-> IF stage1[i].raw # <<>> THEN stage1[i].raw ELSE NoNotesText]]

\* Stage-2 entries that keep the text only of a rater whose ranking parsed
Stage2Results_DropUnparsed(dict) ==
    [i \in 1..Len(dict) |->
        IF dict[i].response.ok /\ parse_ranking_from_text(dict[i].response.text) # <<>>
        THEN [model |-> dict[i].model,
              ranking |-> dict[i].response.text,
              parsed_ranking |-> parse_ranking_from_text(dict[i].response.text)]
        ELSE [model |-> dict[i].model, ranking |-> ErrorRanking, parsed_ranking |-> <<>>]]

\* synthesizer.py 409-429: one Stage-2 entry per dict item
Stage2Results(dict) ==
    [i \in 1..Len(dict) |->
        IF dict[i].response.ok
        THEN [model |-> dict[i].model,
              ranking |-> dict[i].response.text,
              parsed_ranking |-> parse_ranking_from_text(dict[i].response.text)]
        ELSE [model |-> dict[i].model, ranking |-> ErrorRanking, parsed_ranking |-> <<>>]]

\* synthesizer.py 441-446: the Stage-1 parts of the chairman prompt
Stage1TextParts(stage1) ==
    [i \in 1..Len(stage1) |->
        [model |-> stage1[i].model, label |-> i,
         notes |-> IF stage1[i].raw # <<>> THEN stage1[i].raw ELSE NoNotesText]]

\* synthesizer.py 449-452: the Stage-2 parts of the chairman prompt
Stage2TextParts(stage2) ==
    [i \in 1..Len(stage2) |->
        [model |-> stage2[i].model, evaluation |-> stage2[i].ranking]]

\* the dict generate_zettels_deliberation returns
ResultOf(notes, stage1, stage2, l2m, agg, raw, models, gids) ==
    [notes |-> notes, stage1 |-> stage1, stage2 |-> stage2, label_to_model |-> l2m,
     aggregate_rankings |-> agg, stage3_raw |-> raw, models |-> models,
     generation_ids |-> gids]

NoResult == ResultOf(<<>>, <<>>, <<>>, <<>>, <<>>, <<>>, <<>>, <<>>)

\* synthesizer.py 365-372
AllFailedText == << "Error: All models failed to generate notes" >>

AllFailedResult(stage1, models, gids) ==
    ResultOf(<<>>, stage1, <<>>, <<>>, <<>>, AllFailedText, models, gids)

\* synthesizer.py 467-495
ChairmanFailedText == << "Error: Chairman model failed to synthesize final notes" >>

\* a chairman failure answered like the all-failed case
FinalResult_FailureDropsStages(resp, stage1, stage2, l2m, agg, models, gids) ==
    IF ~resp.ok
    THEN ResultOf(<<>>, stage1, <<>>, <<>>, <<>>, ChairmanFailedText, models, gids)
    ELSE ResultOf(parse_zettels(resp.text), stage1, stage2, l2m, agg, resp.text, models,
                  IF resp.gid # 0 THEN Append(gids, resp.gid) ELSE gids)

FinalResult(resp, stage1, stage2, l2m, agg, models, gids) ==
    IF ~resp.ok
    THEN ResultOf(<<>>, stage1, stage2, l2m, agg, ChairmanFailedText, models, gids)
    ELSE ResultOf(parse_zettels(resp.text), stage1, stage2, l2m, agg, resp.text, models,
                  IF resp.gid # 0 THEN Append(gids, resp.gid) ELSE gids)

(***************************************************************************)
(* State of one call of generate_zettels_deliberation.                      *)
(***************************************************************************)
VARIABLES
    council_arg,        \* the council_models argument
    council_models,     \* the list after the default was substituted
    zpc,                \* "called", "stage1", "stage2", "stage3", "returned", "raised"
    stage1_calls,       \* the Stage-1 query_model calls, one per list entry
    stage2_calls,       \* the Stage-2 query_model calls, one per list entry
    chairman_call,      \* the chairman query_model call
    stage1_results,
    label_to_model,
    ranking_prompt,     \* responses_text, as its parts
    stage2_results,
    aggregate_rankings,
    chairman_prompt,    \* stage1_text and stage2_text, as their parts
    generation_ids,
    zresult,            \* the returned dict, NoResult until zpc = "returned"
    atStage2End         \* history: the Stage-1/Stage-2 data when Stage 2 finished

zvars == << council_arg, council_models, zpc, stage1_calls, stage2_calls, chairman_call,
            stage1_results, label_to_model, ranking_prompt, stage2_results,
            aggregate_rankings, chairman_prompt, generation_ids, zresult, atStage2End >>

(***************************************************************************)
(* State of one streamed deliberation (send_message_stream).                *)
(***************************************************************************)
VARIABLES
    messages,           \* Conversation Store: the messages of the conversation
    title,              \* Conversation Store: "New Conversation", "earlier" or "generated"
    spc,                \* where the request / the generator stands
    is_first_message,   \* main.py 183
    events,             \* the events yielded so far, in order
    title_task,         \* "none", "running", "done", "failed"
    s_stage1,           \* stage1_results
    s_stage2,           \* stage2_results
    s_label_to_model,   \* label_to_model
    s_aggregate,        \* aggregate_rankings
    s_stage3,           \* stage3_result
    ranking_queries,    \* ranking queries issued by this deliberation
    chairman_queries    \* chairman queries issued by this deliberation

svars == << messages, title, spc, is_first_message, events, title_task, s_stage1,
            s_stage2, s_label_to_model, s_aggregate, s_stage3, ranking_queries,
            chairman_queries >>

(***************************************************************************)
(* State of one query_model call (openrouter.py).                           *)
(***************************************************************************)
VARIABLES
    qpc,                \* where the call stands
    api_key,            \* what get_openrouter_api_key() gave: "none", "empty" or "key"
    upstream,           \* what the POST came back with
    exc,                \* the exception in flight, "none" without one
    q_return            \* the value returned, Running until the call is over

qvars == << qpc, api_key, upstream, exc, q_return >>

(***************************************************************************)
(* State of one podcast generation (podcast.py, podcast_qwen.py).           *)
(***************************************************************************)
VARIABLES
    pod_entry,          \* the function called: "podcast", "legacy" or "qwen"
    pod_callback,       \* whether a progress_callback was given
    pod_mode,           \* "explainer" or "question_time"
    pod_pc,             \* where generate_podcast / the legacy generate_podcast_audio stands
    qwen_pc,            \* where podcast_qwen.generate_podcast_audio stands
    segments,           \* dialogue_segments: the text of each segment, by kind
    tts_requests,       \* the dialogues posted to /synthesize-dialogue, in order
    qwen_return,        \* "none", "empty" (b"", [], 0) or "audio"
    progress_calls,     \* the progress values handed to progress_callback, in order
    session,            \* the session dict generate_podcast loaded and works on
    stored,             \* session.json of the session, as it is on disk
    reactions_added,    \* history: how many add_session_reaction calls were made
    meta_pc,            \* update_session_metadata: "idle", "a_generate" or "done"
    meta_copy,          \* the session dict update_session_metadata loaded
    pod_result          \* "none", "ok", "error" (a dict with an error) or "raised"

pvars == << pod_entry, pod_callback, pod_mode, pod_pc, qwen_pc, segments, tts_requests,
            qwen_return, progress_calls, session, stored, reactions_added, meta_pc,
            meta_copy, pod_result >>

(***************************************************************************)
(* State of the message requests on one conversation (main.py 114-249).     *)
(***************************************************************************)
VARIABLES
    conv_len,           \* Conversation Store: how many messages the conversation holds
    req_kind,           \* per request: "none", "stream" or "plain"
    req_pc,             \* per request: where it stands
    req_first,          \* per request: is_first_message as the handler computed it
    titles_started,     \* how many title generations were started
    title_writes        \* how many times update_conversation_title was called

rvars == << conv_len, req_kind, req_pc, req_first, titles_started, title_writes >>

(***************************************************************************)
(* State of one segment-by-segment synthesis (podcast_qwen.py 125-236) and  *)
(* of one generate_single_audio call (podcast_qwen.py 321-381).             *)
(***************************************************************************)
VARIABLES
    seg_entry,          \* the function called: "none", "cancellable" or "single"
    c_segments,         \* dialogue_segments of the cancellable call, by kind of text
    c_pc,               \* where generate_podcast_audio_cancellable stands
    c_idx,              \* the place in the filtered dialogue the loop is at
    cancelled,          \* whether the session is marked cancelled
    chunks,             \* the places whose audio was appended to audio_chunks
    synth_starts,       \* history: each generate_single_audio call, with the mark it started under
    c_result,           \* "none", "empty", "audio" or "cancelled"
    g_pc,               \* where generate_single_audio stands
    g_max_retries,      \* its max_retries argument
    g_attempt,          \* the attempt of the loop, from 0
    g_requests,         \* how many synthesis requests this call posted
    g_sleeps,           \* how many times this call slept
    g_failures,         \* the errors of the failed attempts of this call, in order
    g_result            \* "none", "audio", "no_audio" (b"") or "raised"

cvars == << seg_entry, c_segments, c_pc, c_idx, cancelled, chunks, synth_starts,
            c_result, g_pc, g_max_retries, g_attempt, g_requests, g_sleeps, g_failures,
            g_result >>

(***************************************************************************)
(* State of the voice store of the TTS service (server.py).                 *)
(***************************************************************************)
VARIABLES
    voices,             \* voices.json: the ids of the cloned and designed voices
    data_files,         \* the ids that have a voice data file
    audio_files,        \* the ids that have a reference audio file
    minted,             \* the voice ids generated so far
    v_request,          \* the voice_id of the last delete request, "none" before any
    v_status,           \* the status of its response
    v_detail            \* the detail of its response

vvars == << voices, data_files, audio_files, minted, v_request, v_status, v_detail >>

Stage2Snapshot(stage1, stage2, l2m, agg) ==
    [stage1 |-> stage1, stage2 |-> stage2, label_to_model |-> l2m, aggregate_rankings |-> agg]

ZInit ==
    /\ council_arg \in CouncilArgs
    /\ council_models = <<>>
    /\ zpc = "called"
    /\ stage1_calls = <<>>
    /\ stage2_calls = <<>>
    /\ chairman_call = Idle
    /\ stage1_results = <<>>
    /\ label_to_model = <<>>
    /\ ranking_prompt = <<>>
    /\ stage2_results = <<>>
    /\ aggregate_rankings = <<>>
    /\ chairman_prompt = [stage1_text |-> <<>>, stage2_text |-> <<>>]
    /\ generation_ids = <<>>
    /\ zresult = NoResult
    /\ atStage2End = Stage2Snapshot(<<>>, <<>>, <<>>, <<>>)

\* synthesizer.py 313-336: substitute the default pool, build the messages and
\* enter query_models_parallel, which starts one query_model per list entry
Z_Call ==
    /\ zpc = "called"
    /\ council_models' = IF council_arg.given THEN council_arg.list ELSE DefaultCouncil
    /\ stage1_calls' = [i \in 1..Len(council_models') |-> Running]
    /\ zpc' = "stage1"
    /\ UNCHANGED << council_arg, stage2_calls, chairman_call, stage1_results,
                    label_to_model, ranking_prompt, stage2_results, aggregate_rankings,
                    chairman_prompt, generation_ids, zresult, atStage2End >>
    /\ UNCHANGED << svars, qvars, pvars, rvars, cvars, vvars >>

\* openrouter.py 12-63: one Stage-1 query_model returns
Z_Stage1Return(i) ==
    /\ zpc = "stage1"
    /\ i \in 1..Len(stage1_calls)
    /\ stage1_calls[i].st = "running"
    /\ \E o \in Stage1Outcomes(i) : stage1_calls' = [stage1_calls EXCEPT ![i] = o]
    /\ UNCHANGED << council_arg, council_models, zpc, stage2_calls, chairman_call,
                    stage1_results, label_to_model, ranking_prompt, stage2_results,
                    aggregate_rankings, chairman_prompt, generation_ids, zresult,
                    atStage2End >>
    /\ UNCHANGED << svars, qvars, pvars, rvars, cvars, vvars >>

\* synthesizer.py 336-406: the Stage-1 gather returns; process the results,
\* return the failure result or build the labels and start the Stage-2 calls
Z_Stage1Join ==
    /\ zpc = "stage1"
    /\ AllDone(stage1_calls)
    /\ LET dict == ZipDict(council_models, stage1_calls)
           s1 == Stage1Results(dict)
           gids == GenerationIds(dict)
       IN  IF RaisesOnNull(dict)
           THEN /\ zpc' = "raised"
                /\ UNCHANGED << stage1_results, generation_ids, zresult, label_to_model,
                                ranking_prompt, stage2_calls >>
           ELSE /\ stage1_results' = s1
                /\ generation_ids' = gids
                /\ IF NoNotesAtAll(s1)
                   THEN /\ zresult' = AllFailedResult(s1, council_models, gids)
                        /\ zpc' = "returned"
                        /\ UNCHANGED << label_to_model, ranking_prompt, stage2_calls >>
                   ELSE /\ label_to_model' = LabelToModel(s1)
                        /\ ranking_prompt' = ResponsesParts(s1)
                        /\ stage2_calls' = [i \in 1..Len(council_models) |-> Running]
                        /\ zpc' = "stage2"
                        /\ UNCHANGED zresult
    /\ UNCHANGED << council_arg, council_models, stage1_calls, chairman_call,
                    stage2_results, aggregate_rankings, chairman_prompt, atStage2End >>
    /\ UNCHANGED << svars, qvars, pvars, rvars, cvars, vvars >>

\* openrouter.py 12-63: one Stage-2 query_model returns
Z_Stage2Return(i) ==
    /\ zpc = "stage2"
    /\ i \in 1..Len(stage2_calls)
    /\ stage2_calls[i].st = "running"
    /\ \E o \in Stage2Outcomes(i) : stage2_calls' = [stage2_calls EXCEPT ![i] = o]
    /\ UNCHANGED << council_arg, council_models, zpc, stage1_calls, chairman_call,
                    stage1_results, label_to_model, ranking_prompt, stage2_results,
                    aggregate_rankings, chairman_prompt, generation_ids, zresult,
                    atStage2End >>
    /\ UNCHANGED << svars, qvars, pvars, rvars, cvars, vvars >>

\* synthesizer.py 406-465: the Stage-2 gather returns; parse and aggregate the
\* rankings, build the chairman prompt and start the chairman call
Z_Stage2Join ==
    /\ zpc = "stage2"
    /\ AllDone(stage2_calls)
    /\ LET dict == ZipDict(council_models, stage2_calls)
           s2 == Stage2Results(dict)
           agg == calculate_aggregate_rankings(s2, label_to_model)
       IN  IF RaisesOnNull(dict)
           THEN /\ zpc' = "raised"
                /\ UNCHANGED << stage2_results, generation_ids, aggregate_rankings,
                                chairman_prompt, chairman_call, atStage2End >>
           ELSE /\ stage2_results' = s2
                /\ generation_ids' = generation_ids \o GenerationIds(dict)
                /\ aggregate_rankings' = agg
                /\ chairman_prompt' = [stage1_text |-> Stage1TextParts(stage1_results),
                                       stage2_text |-> Stage2TextParts(s2)]
                /\ chairman_call' = Running
                /\ atStage2End' = Stage2Snapshot(stage1_results, s2, label_to_model, agg)
                /\ zpc' = "stage3"
    /\ UNCHANGED << council_arg, council_models, stage1_calls, stage2_calls,
                    stage1_results, label_to_model, ranking_prompt, zresult >>
    /\ UNCHANGED << svars, qvars, pvars, rvars, cvars, vvars >>

\* openrouter.py 12-63: the chairman query_model returns
Z_ChairmanReturn ==
    /\ zpc = "stage3"
    /\ chairman_call.st = "running"
    /\ chairman_call' \in ChairmanOutcomes
    /\ UNCHANGED << council_arg, council_models, zpc, stage1_calls, stage2_calls,
                    stage1_results, label_to_model, ranking_prompt, stage2_results,
                    aggregate_rankings, chairman_prompt, generation_ids, zresult,
                    atStage2End >>
    /\ UNCHANGED << svars, qvars, pvars, rvars, cvars, vvars >>

\* synthesizer.py 465-495: take the chairman's answer and return
Z_Finish ==
    /\ zpc = "stage3"
    /\ chairman_call.st = "done"
    /\ IF chairman_call.ok /\ chairman_call.isnull
       THEN /\ zpc' = "raised"
            /\ UNCHANGED zresult
       ELSE /\ zresult' = FinalResult(chairman_call, stage1_results, stage2_results,
                                      label_to_model, aggregate_rankings,
                                      council_models, generation_ids)
            /\ zpc' = "returned"
    /\ UNCHANGED << council_arg, council_models, stage1_calls, stage2_calls, chairman_call,
                    stage1_results, label_to_model, ranking_prompt, stage2_results,
                    aggregate_rankings, chairman_prompt, generation_ids, atStage2End >>
    /\ UNCHANGED << svars, qvars, pvars, rvars, cvars, vvars >>

ZNext ==
    \/ Z_Call
    \/ \E i \in 1..MaxCouncil : Z_Stage1Return(i)
    \/ Z_Stage1Join
    \/ \E i \in 1..MaxCouncil : Z_Stage2Return(i)
    \/ Z_Stage2Join
    \/ Z_ChairmanReturn
    \/ Z_Finish

(***************************************************************************)
(* The streamed deliberation: send_message_stream and its event_generator.  *)
(* The stage functions of council.py and the Conversation Store are         *)
(* collaborators; each await of one may also raise.                         *)
(***************************************************************************)
\* the council of a conversation without council_config: the default pool
StreamCouncil == DefaultCouncil

UserMessage(by) == [role |-> "user", by |-> by]

AssistantMessage(by) == [role |-> "assistant", by |-> by]

NoStage3 == [done |-> FALSE, ok |-> FALSE]

\* yield f"data: {json.dumps({'type': e, ...})}\n\n"
Emit(evs, e) == Append(evs, e)

\* an exception handler that ends the stream without an event
OnException_Silent(evs) == evs

\* main.py 238-240: except Exception -> yield the error event
OnException(evs) == Emit(evs, "error")

\* council.stage1_collect_responses: one ModelResponse per council model,
\* succeeded or not; a failed query is data, not an exception
stage1_collect_responses(succeeded) ==
    [i \in 1..Len(StreamCouncil) |-> [model |-> StreamCouncil[i], ok |-> succeeded[i]]]

\* the Anonymizer: labels A, B, ... for the successful Stage-1 responses, in order
Anonymize(stage1) ==
    LET good == SelectSeq(stage1, LAMBDA r : r.ok)
    IN  [i \in 1..Len(good) |-> good[i].model]

\* texts a rater of the streamed deliberation may answer with
StreamRankingTexts ==
    { << Prose >>, << Marker, RankLine(1), RankLine(2) >>, << Marker, RankLine(2), RankLine(1) >> }

StreamRaterOutcomes == { Failure } \cup { Response(t, 0) : t \in StreamRankingTexts }

\* council.stage2_collect_rankings: the submissions of the raters that answered
stage2_collect_rankings(raters) ==
    LET dict == SelectSeq(ZipDict(StreamCouncil, raters), LAMBDA e : e.response.ok)
    IN  [i \in 1..Len(dict) |->
            [model |-> dict[i].model,
             ranking |-> dict[i].response.text,
             parsed_ranking |-> parse_ranking_from_text(dict[i].response.text)]]

SInit ==
    /\ messages = <<>>
    /\ title = "New Conversation"
    /\ spc = "idle"
    /\ is_first_message = FALSE
    /\ events = <<>>
    /\ title_task = "none"
    /\ s_stage1 = <<>>
    /\ s_stage2 = <<>>
    /\ s_label_to_model = <<>>
    /\ s_aggregate = <<>>
    /\ s_stage3 = NoStage3
    /\ ranking_queries = 0
    /\ chairman_queries = 0

\* an earlier, finished exchange on the conversation
S_EarlierExchange ==
    /\ spc = "idle"
    /\ messages = <<>>
    /\ messages' = << UserMessage("earlier"), AssistantMessage("earlier") >>
    /\ title' = "earlier"
    /\ UNCHANGED << spc, is_first_message, events, title_task, s_stage1, s_stage2,
                    s_label_to_model, s_aggregate, s_stage3, ranking_queries,
                    chairman_queries >>
    /\ UNCHANGED << zvars, qvars, pvars, rvars, cvars, vvars >>

\* main.py 177-183, 242-249: the handler reads the conversation, decides
\* is_first_message and hands the generator to the StreamingResponse
S_Request ==
    /\ spc = "idle"
    /\ is_first_message' = (Len(messages) = 0)
    /\ spc' = "created"
    /\ UNCHANGED << messages, title, events, title_task, s_stage1, s_stage2,
                    s_label_to_model, s_aggregate, s_stage3, ranking_queries,
                    chairman_queries >>
    /\ UNCHANGED << zvars, qvars, pvars, rvars, cvars, vvars >>

\* main.py 186-206: store the user message, start the title task, yield stage1_start
S_Begin ==
    /\ spc = "created"
    /\ \/ /\ messages' = Append(messages, UserMessage("request"))
          /\ title_task' = IF is_first_message THEN "running" ELSE "none"
          /\ events' = Emit(events, "stage1_start")
          /\ spc' = "y_stage1_start"
       \/ /\ events' = OnException(events)      \* add_user_message raised
          /\ spc' = "y_error"
          /\ UNCHANGED << messages, title_task >>
    /\ UNCHANGED << title, is_first_message, s_stage1, s_stage2, s_label_to_model,
                    s_aggregate, s_stage3, ranking_queries, chairman_queries >>
    /\ UNCHANGED << zvars, qvars, pvars, rvars, cvars, vvars >>

\* main.py 207: resumed after stage1_start, await stage1_collect_responses
S_CallStage1 ==
    /\ spc = "y_stage1_start"
    /\ spc' = "a_stage1"
    /\ UNCHANGED << messages, title, is_first_message, events, title_task, s_stage1,
                    s_stage2, s_label_to_model, s_aggregate, s_stage3, ranking_queries,
                    chairman_queries >>
    /\ UNCHANGED << zvars, qvars, pvars, rvars, cvars, vvars >>

\* main.py 207-208: Stage 1 returns (or raises), yield stage1_complete
S_Stage1Returns ==
    /\ spc = "a_stage1"
    /\ \/ \E succeeded \in [1..Len(StreamCouncil) -> BOOLEAN] :
             /\ s_stage1' = stage1_collect_responses(succeeded)
             /\ events' = Emit(events, "stage1_complete")
             /\ spc' = "y_stage1_complete"
       \/ /\ events' = OnException(events)
          /\ spc' = "y_error"
          /\ UNCHANGED s_stage1
    /\ UNCHANGED << messages, title, is_first_message, title_task, s_stage2,
                    s_label_to_model, s_aggregate, s_stage3, ranking_queries,
                    chairman_queries >>
    /\ UNCHANGED << zvars, qvars, pvars, rvars, cvars, vvars >>

\* main.py 211: yield stage2_start
S_YieldStage2Start ==
    /\ spc = "y_stage1_complete"
    /\ events' = Emit(events, "stage2_start")
    /\ spc' = "y_stage2_start"
    /\ UNCHANGED << messages, title, is_first_message, title_task, s_stage1, s_stage2,
                    s_label_to_model, s_aggregate, s_stage3, ranking_queries,
                    chairman_queries >>
    /\ UNCHANGED << zvars, qvars, pvars, rvars, cvars, vvars >>

\* main.py 212: await stage2_collect_rankings, which sends the ranking prompt
\* to every council model
S_CallStage2 ==
    /\ spc = "y_stage2_start"
    /\ ranking_queries' = ranking_queries + Len(StreamCouncil)
    /\ spc' = "a_stage2"
    /\ UNCHANGED << messages, title, is_first_message, events, title_task, s_stage1,
                    s_stage2, s_label_to_model, s_aggregate, s_stage3, chairman_queries >>
    /\ UNCHANGED << zvars, qvars, pvars, rvars, cvars, vvars >>

\* main.py 212-214: Stage 2 returns (or raises), aggregate, yield stage2_complete
S_Stage2Returns ==
    /\ spc = "a_stage2"
    /\ \/ \E raters \in [1..Len(StreamCouncil) -> StreamRaterOutcomes] :
             /\ s_stage2' = stage2_collect_rankings(raters)
             /\ s_label_to_model' = Anonymize(s_stage1)
             /\ s_aggregate' = calculate_aggregate_rankings(s_stage2', s_label_to_model')
             /\ events' = Emit(events, "stage2_complete")
             /\ spc' = "y_stage2_complete"
       \/ /\ events' = OnException(events)
          /\ spc' = "y_error"
          /\ UNCHANGED << s_stage2, s_label_to_model, s_aggregate >>
    /\ UNCHANGED << messages, title, is_first_message, title_task, s_stage1, s_stage3,
                    ranking_queries, chairman_queries >>
    /\ UNCHANGED << zvars, qvars, pvars, rvars, cvars, vvars >>

\* main.py 217: yield stage3_start
S_YieldStage3Start ==
    /\ spc = "y_stage2_complete"
    /\ events' = Emit(events, "stage3_start")
    /\ spc' = "y_stage3_start"
    /\ UNCHANGED << messages, title, is_first_message, title_task, s_stage1, s_stage2,
                    s_label_to_model, s_aggregate, s_stage3, ranking_queries,
                    chairman_queries >>
    /\ UNCHANGED << zvars, qvars, pvars, rvars, cvars, vvars >>

\* main.py 218: await stage3_synthesize_final, which queries the chairman
S_CallStage3 ==
    /\ spc = "y_stage3_start"
    /\ chairman_queries' = chairman_queries + 1
    /\ spc' = "a_stage3"
    /\ UNCHANGED << messages, title, is_first_message, events, title_task, s_stage1,
                    s_stage2, s_label_to_model, s_aggregate, s_stage3, ranking_queries >>
    /\ UNCHANGED << zvars, qvars, pvars, rvars, cvars, vvars >>

\* main.py 218-219: Stage 3 returns (or raises), yield stage3_complete
S_Stage3Returns ==
    /\ spc = "a_stage3"
    /\ \/ \E ok \in BOOLEAN :
             /\ s_stage3' = [done |-> TRUE, ok |-> ok]
             /\ events' = Emit(events, "stage3_complete")
             /\ spc' = "y_stage3_complete"
       \/ /\ events' = OnException(events)
          /\ spc' = "y_error"
          /\ UNCHANGED s_stage3
    /\ UNCHANGED << messages, title, is_first_message, title_task, s_stage1, s_stage2,
                    s_label_to_model, s_aggregate, ranking_queries, chairman_queries >>
    /\ UNCHANGED << zvars, qvars, pvars, rvars, cvars, vvars >>

\* a store call that raises after it has written the message
SaveAndComplete_StoredThenRaised ==
    \/ /\ messages' = Append(messages, AssistantMessage("request"))
       /\ events' = Emit(events, "complete")
       /\ spc' = "y_complete"
    \/ /\ messages' = Append(messages, AssistantMessage("request"))
       /\ events' = OnException(events)
       /\ spc' = "y_error"

\* main.py 228-236: store the assistant message, yield complete
SaveAndComplete ==
    \/ /\ messages' = Append(messages, AssistantMessage("request"))
       /\ events' = Emit(events, "complete")
       /\ spc' = "y_complete"
    \/ /\ events' = OnException(events)         \* add_assistant_message raised
       /\ spc' = "y_error"
       /\ UNCHANGED messages

\* the generator going on to save without joining the title task
S_AfterStage3_NoJoin ==
    /\ spc = "y_stage3_complete"
    /\ SaveAndComplete
    /\ UNCHANGED << title, is_first_message, title_task, s_stage1, s_stage2,
                    s_label_to_model, s_aggregate, s_stage3, ranking_queries,
                    chairman_queries >>
    /\ UNCHANGED << zvars, qvars, pvars, rvars, cvars, vvars >>

\* main.py 222-223 (and 228-236 without a title task): resumed after stage3_complete
S_AfterStage3 ==
    /\ spc = "y_stage3_complete"
    /\ IF title_task # "none"
       THEN /\ spc' = "a_title"
            /\ UNCHANGED << messages, events >>
       ELSE SaveAndComplete
    /\ UNCHANGED << title, is_first_message, title_task, s_stage1, s_stage2,
                    s_label_to_model, s_aggregate, s_stage3, ranking_queries,
                    chairman_queries >>
    /\ UNCHANGED << zvars, qvars, pvars, rvars, cvars, vvars >>

\* council.generate_conversation_title running as a task: it ends with a
\* generated title ("done"), with the default title because its query failed
\* ("fallback"), or with an exception ("failed"), whether or not the stream
\* still runs
S_TitleTaskEnds ==
    /\ title_task = "running"
    /\ title_task' \in { "done", "fallback", "failed" }
    /\ UNCHANGED << messages, title, spc, is_first_message, events, s_stage1, s_stage2,
                    s_label_to_model, s_aggregate, s_stage3, ranking_queries,
                    chairman_queries >>
    /\ UNCHANGED << zvars, qvars, pvars, rvars, cvars, vvars >>

\* main.py 223-225: the awaited title task is over; store the title, yield title_complete
S_TitleJoined ==
    /\ spc = "a_title"
    /\ title_task \in { "done", "fallback", "failed" }
    /\ \/ /\ title_task \in { "done", "fallback" }
          /\ title' = IF title_task = "done" THEN "generated" ELSE "New Conversation"
          /\ events' = Emit(events, "title_complete")
          /\ spc' = "y_title_complete"
       \/ /\ events' = OnException(events)      \* the task or update_conversation_title raised
          /\ spc' = "y_error"
          /\ UNCHANGED title
    /\ UNCHANGED << messages, is_first_message, title_task, s_stage1, s_stage2,
                    s_label_to_model, s_aggregate, s_stage3, ranking_queries,
                    chairman_queries >>
    /\ UNCHANGED << zvars, qvars, pvars, rvars, cvars, vvars >>

\* main.py 228-236: resumed after title_complete
S_AfterTitle ==
    /\ spc = "y_title_complete"
    /\ SaveAndComplete
    /\ UNCHANGED << title, is_first_message, title_task, s_stage1, s_stage2,
                    s_label_to_model, s_aggregate, s_stage3, ranking_queries,
                    chairman_queries >>
    /\ UNCHANGED << zvars, qvars, pvars, rvars, cvars, vvars >>

\* resumed after the terminal event: the generator returns
S_Close ==
    /\ spc \in { "y_complete", "y_error" }
    /\ spc' = "closed"
    /\ UNCHANGED << messages, title, is_first_message, events, title_task, s_stage1,
                    s_stage2, s_label_to_model, s_aggregate, s_stage3, ranking_queries,
                    chairman_queries >>
    /\ UNCHANGED << zvars, qvars, pvars, rvars, cvars, vvars >>

SuspensionPoints ==
    { "created", "y_stage1_start", "a_stage1", "y_stage1_complete", "y_stage2_start",
      "a_stage2", "y_stage2_complete", "y_stage3_start", "a_stage3", "y_stage3_complete",
      "a_title", "y_title_complete", "y_complete", "y_error" }

\* the client disconnects: the generator is cancelled where it is suspended
\* (CancelledError / GeneratorExit are not caught by "except Exception")
S_Disconnect ==
    /\ spc \in SuspensionPoints
    /\ spc' = "cancelled"
    /\ UNCHANGED << messages, title, is_first_message, events, title_task, s_stage1,
                    s_stage2, s_label_to_model, s_aggregate, s_stage3, ranking_queries,
                    chairman_queries >>
    /\ UNCHANGED << zvars, qvars, pvars, rvars, cvars, vvars >>

SNext ==
    \/ S_EarlierExchange
    \/ S_Request
    \/ S_Begin
    \/ S_CallStage1
    \/ S_Stage1Returns
    \/ S_YieldStage2Start
    \/ S_CallStage2
    \/ S_Stage2Returns
    \/ S_YieldStage3Start
    \/ S_CallStage3
    \/ S_Stage3Returns
    \/ S_AfterStage3
    \/ S_TitleTaskEnds
    \/ S_TitleJoined
    \/ S_AfterTitle
    \/ S_Close
    \/ S_Disconnect

(***************************************************************************)
(* query_model (openrouter.py 12-63), statement by statement.               *)
(***************************************************************************)
\* the shapes of a response body
BodyShapes ==
    { "not_json",        \* response.json() fails
      "json_list",       \* valid JSON that is not an object
      "no_choices",      \* an object without 'choices'
      "null_choices",    \* 'choices': null
      "empty_choices",   \* 'choices': []
      "no_message",      \* choices[0] without 'message'
      "null_message",    \* choices[0]['message']: null
      "message" }        \* choices[0]['message'] is an object

\* a body: its shape, the 'content' of the message ("text", "null" or
\* "absent") and the 'id' of the payload (0 when absent)
Body(shape, content, id) == [shape |-> shape, content |-> content, id |-> id]

Bodies ==
    { Body(sh, "absent", 0) : sh \in BodyShapes \ { "message" } }
        \cup { Body("message", c, g) : c \in { "text", "null", "absent" }, g \in { 0, 7 } }

NoUpstream == [kind |-> "none", status |-> 0, body |-> Body("not_json", "absent", 0)]

\* what awaiting client.post can come back with
UpstreamOutcomes ==
    { [kind |-> k, status |-> 0, body |-> Body("not_json", "absent", 0)] :
         k \in { "timeout", "transport" } }
        \cup { [kind |-> "response", status |-> st, body |-> b] :
                  st \in { 200, 429, 500 }, b \in Bodies }

\* the exception classes that derive from Exception
ExceptionSubclasses ==
    { "TimeoutException", "ConnectError", "HTTPStatusError", "JSONDecodeError",
      "KeyError", "IndexError", "TypeError", "AttributeError" }

\* a handler for the HTTP client's errors alone
Caught_HttpOnly(e) == e \in { "TimeoutException", "ConnectError", "HTTPStatusError" }

\* openrouter.py 61: except Exception (asyncio.CancelledError is a BaseException)
Caught(e) == e \in ExceptionSubclasses

\* openrouter.py 53: data['choices'][0]['message'], the exception it raises
IndexingError(shape) ==
    CASE shape = "json_list" -> "TypeError"
      [] shape = "no_choices" -> "KeyError"
      [] shape = "null_choices" -> "TypeError"
      [] shape = "empty_choices" -> "IndexError"
      [] shape = "no_message" -> "KeyError"
      [] OTHER -> "none"

\* openrouter.py 55-59: the dict returned
QueryResult(body) ==
    IF body.content = "text" THEN Response(<< "T", "B" >>, body.id)
    ELSE NullResponse(body.id)

QInit ==
    /\ qpc = "idle"
    /\ api_key = "none"
    /\ upstream = NoUpstream
    /\ exc = "none"
    /\ q_return = Running

\* openrouter.py 28: the call starts and reads the API key
Q_Call ==
    /\ qpc = "idle"
    /\ api_key' \in { "none", "empty", "key" }
    /\ qpc' = "check_key"
    /\ UNCHANGED << upstream, exc, q_return >>
    /\ UNCHANGED << zvars, svars, pvars, rvars, cvars, vvars >>

\* openrouter.py 29-45: without a key return None, else build the request and post it
Q_CheckKey ==
    /\ qpc = "check_key"
    /\ IF api_key # "key"
       THEN q_return' = Failure /\ qpc' = "returned"
       ELSE q_return' = q_return /\ qpc' = "a_post"
    /\ UNCHANGED << api_key, upstream, exc >>
    /\ UNCHANGED << zvars, svars, pvars, rvars, cvars, vvars >>

\* openrouter.py 45-49: the awaited post is over
Q_PostReturns ==
    /\ qpc = "a_post"
    /\ \E u \in UpstreamOutcomes :
          /\ upstream' = u
          /\ CASE u.kind = "timeout" -> exc' = "TimeoutException" /\ qpc' = "except"
               [] u.kind = "transport" -> exc' = "ConnectError" /\ qpc' = "except"
               [] OTHER -> exc' = exc /\ qpc' = "raise_for_status"
    /\ UNCHANGED << api_key, q_return >>
    /\ UNCHANGED << zvars, svars, pvars, rvars, cvars, vvars >>

\* the caller cancels the call while it awaits the post
Q_Cancel ==
    /\ qpc = "a_post"
    /\ exc' = "CancelledError"
    /\ qpc' = "except"
    /\ UNCHANGED << api_key, upstream, q_return >>
    /\ UNCHANGED << zvars, svars, pvars, rvars, cvars, vvars >>

\* openrouter.py 50: response.raise_for_status()
Q_RaiseForStatus ==
    /\ qpc = "raise_for_status"
    /\ IF upstream.status >= 400
       THEN exc' = "HTTPStatusError" /\ qpc' = "except"
       ELSE exc' = exc /\ qpc' = "json"
    /\ UNCHANGED << api_key, upstream, q_return >>
    /\ UNCHANGED << zvars, svars, pvars, rvars, cvars, vvars >>

\* openrouter.py 52: data = response.json()
Q_Json ==
    /\ qpc = "json"
    /\ IF upstream.body.shape = "not_json"
       THEN exc' = "JSONDecodeError" /\ qpc' = "except"
       ELSE exc' = exc /\ qpc' = "index"
    /\ UNCHANGED << api_key, upstream, q_return >>
    /\ UNCHANGED << zvars, svars, pvars, rvars, cvars, vvars >>

\* openrouter.py 53: message = data['choices'][0]['message']
Q_Index ==
    /\ qpc = "index"
    /\ IF IndexingError(upstream.body.shape) # "none"
       THEN exc' = IndexingError(upstream.body.shape) /\ qpc' = "except"
       ELSE exc' = exc /\ qpc' = "build"
    /\ UNCHANGED << api_key, upstream, q_return >>
    /\ UNCHANGED << zvars, svars, pvars, rvars, cvars, vvars >>

\* openrouter.py 55-59: message.get(...) and the return
Q_Build ==
    /\ qpc = "build"
    /\ IF upstream.body.shape = "null_message"
       THEN exc' = "AttributeError" /\ qpc' = "except" /\ q_return' = q_return
       ELSE exc' = exc /\ qpc' = "returned" /\ q_return' = QueryResult(upstream.body)
    /\ UNCHANGED << api_key, upstream >>
    /\ UNCHANGED << zvars, svars, pvars, rvars, cvars, vvars >>

\* openrouter.py 61-63: the handler returns None; what it does not catch leaves the call
Q_Except ==
    /\ qpc = "except"
    /\ IF Caught(exc)
       THEN q_return' = Failure /\ qpc' = "returned"
       ELSE q_return' = q_return /\ qpc' = "raised"
    /\ UNCHANGED << api_key, upstream, exc >>
    /\ UNCHANGED << zvars, svars, pvars, rvars, cvars, vvars >>

QNext ==
    \/ Q_Call
    \/ Q_CheckKey
    \/ Q_PostReturns
    \/ Q_Cancel
    \/ Q_RaiseForStatus
    \/ Q_Json
    \/ Q_Index
    \/ Q_Build
    \/ Q_Except

(***************************************************************************)
(* Podcast generation and its progress reports (podcast.py 825-1133,        *)
(* podcast_qwen.py 35-122).  A progress value is a double; it is kept as    *)
(* the decimal it stands for, in thousandths (v), and the sign of the       *)
(* rounding error the double arithmetic left on it (ulp).                   *)
(***************************************************************************)
\* the double of the literal v / 1000
Progress(v) == [v |-> v, ulp |-> 0]

\* the sign of base + (progress * scale), evaluated in IEEE-754 doubles, minus
\* the double of its exact decimal value: 0.30 + 0.9 * 0.60 is
\* 0.8400000000000001 and 0.30 + 1.0 * 0.60 is 0.8999999999999999
Rounding(base, progress, scale) ==
    IF << base, progress, scale >> = << 300, 900, 600 >> THEN 1
    ELSE IF << base, progress, scale >> = << 300, 1000, 600 >> THEN 0 - 1
    ELSE 0

\* base + (progress * scale)
Overall(base, progress, scale) ==
    [v |-> base + ((progress.v * scale) \div 1000),
     ulp |-> Rounding(base, progress.v, scale)]

\* an audio stage that hands the synthesizer's own progress on
AudioOverall_Unmapped(entry, progress) == progress

\* podcast.py 943-945, 1082-1083: audio_progress maps the synthesizer's
\* progress into the audio stage of the run
AudioOverall(entry, progress) ==
    IF entry = "podcast" THEN Overall(300, progress, 600)
    ELSE Overall(100, progress, 850)

\* progress_callback(p, ...) for each p of ps, when a callback was given
OuterReport(calls, given, ps) == IF given THEN calls \o ps ELSE calls

\* what the synthesizer's reports ps become for the caller's callback
QwenReported(entry, ps) ==
    IF entry = "qwen" THEN ps
    ELSE [i \in 1..Len(ps) |-> AudioOverall(entry, ps[i])]

\* the kinds of text a segment can have: words, the empty string, whitespace only
TextKinds == { "words", "empty", "blank" }

SegmentLists == UNION { [1..n -> TextKinds] : n \in 0..MaxSegments }

\* podcast_qwen.py 74: seg.get("text", "").strip() is truthy
NonBlank(text) == text = "words"

\* a dialogue that keeps every segment
Dialogue_Unfiltered(segs) == [i \in 1..Len(segs) |-> [id |-> i, text |-> segs[i]]]

\* podcast_qwen.py 67-75: the segments with text, in order, each with its place
\* in dialogue_segments
Dialogue(segs) ==
    SelectSeq([i \in 1..Len(segs) |-> [id |-> i, text |-> segs[i]]],
              LAMBDA seg : NonBlank(seg.text))

\* podcast.py 203-228: the session create_podcast_session stored
NewSession ==
    [status |-> "created", progress |-> Progress(0), title |-> "initial", reactions |-> 0]

\* podcast.py 992-995, 1129-1132: the handler of generate_podcast marks the session
Errored(sess) == [sess EXCEPT !.status = "error"]

PInit ==
    /\ pod_entry = "none"
    /\ pod_callback = FALSE
    /\ pod_mode = "explainer"
    /\ pod_pc = "idle"
    /\ qwen_pc = "idle"
    /\ segments = <<>>
    /\ tts_requests = <<>>
    /\ qwen_return = "none"
    /\ progress_calls = <<>>
    /\ session = NewSession
    /\ stored = NewSession
    /\ reactions_added = 0
    /\ meta_pc = "idle"
    /\ meta_copy = NewSession
    /\ pod_result = "none"

\* podcast.py 854-857, 1017-1022: the call starts and loads the session
P_Call ==
    /\ pod_pc = "idle"
    /\ \E e \in { "podcast", "legacy" }, cb \in BOOLEAN, found \in BOOLEAN,
          m \in { "explainer", "question_time" } :
          /\ pod_entry' = e
          /\ pod_callback' = cb
          /\ pod_mode' = IF e = "podcast" THEN m ELSE "explainer"
          /\ IF found
             THEN pod_pc' = "a_health" /\ pod_result' = pod_result /\ session' = stored
             ELSE pod_pc' = "returned" /\ pod_result' = "error" /\ session' = session
    /\ UNCHANGED << qwen_pc, segments, tts_requests, qwen_return, progress_calls, stored,
                    reactions_added, meta_pc, meta_copy >>
    /\ UNCHANGED << zvars, svars, qvars, rvars, cvars, vvars >>

\* podcast.py 860-870, 1025-1045: check_tts_service is over
P_HealthChecked ==
    /\ pod_pc = "a_health"
    /\ \E health \in { "healthy", "unhealthy", "raises" } :
          CASE health = "unhealthy" ->
                  /\ pod_pc' = "returned" /\ pod_result' = "error"
                  /\ UNCHANGED << progress_calls, session, stored >>
            [] health = "raises" ->
                  /\ pod_pc' = "returned" /\ pod_result' = "raised"
                  /\ UNCHANGED << progress_calls, session, stored >>
            [] OTHER ->
                  /\ pod_result' = pod_result
                  /\ IF pod_entry = "podcast"
                     THEN /\ session' = [session EXCEPT !.status = "generating",
                                                        !.progress = Progress(10)]
                          /\ pod_pc' = "a_characters"
                          /\ UNCHANGED progress_calls
                     ELSE /\ session' = [session EXCEPT !.status = "generating",
                                                        !.progress = Progress(20)]
                          /\ progress_calls' =
                                OuterReport(progress_calls, pod_callback, << Progress(50) >>)
                          /\ pod_pc' = "a_script"
                  /\ stored' = session'
    /\ UNCHANGED << pod_entry, pod_callback, pod_mode, qwen_pc, segments, tts_requests,
                    qwen_return, reactions_added, meta_pc, meta_copy >>
    /\ UNCHANGED << zvars, svars, qvars, rvars, cvars, vvars >>

\* podcast.py 873-911: the characters are loaded
P_CharactersLoaded ==
    /\ pod_pc = "a_characters"
    /\ \E out \in { "loaded", "none_valid", "raises" } :
          CASE out = "loaded" ->
                  /\ session' = [session EXCEPT !.progress = Progress(50)]
                  /\ stored' = session'
                  /\ progress_calls' =
                        OuterReport(progress_calls, pod_callback,
                                    << Progress(50), Progress(100) >>)
                  /\ pod_pc' = IF pod_mode = "question_time" THEN "a_questions"
                               ELSE "a_script"
                  /\ pod_result' = pod_result
            [] out = "none_valid" ->                \* podcast.py 890-891
                  /\ pod_pc' = "returned" /\ pod_result' = "error"
                  /\ UNCHANGED << progress_calls, session, stored >>
            [] OTHER ->
                  /\ pod_pc' = "returned" /\ pod_result' = "error"
                  /\ session' = Errored(session)
                  /\ stored' = session'
                  /\ UNCHANGED progress_calls
    /\ UNCHANGED << pod_entry, pod_callback, pod_mode, qwen_pc, segments, tts_requests,
                    qwen_return, reactions_added, meta_pc, meta_copy >>
    /\ UNCHANGED << zvars, svars, qvars, rvars, cvars, vvars >>

\* podcast.py 916-921: extract_questions_from_notes is over
P_QuestionsExtracted ==
    /\ pod_pc = "a_questions"
    /\ \E raised \in BOOLEAN :
          IF raised
          THEN pod_pc' = "returned" /\ pod_result' = "error" /\ session' = Errored(session)
          ELSE pod_pc' = "a_script" /\ pod_result' = pod_result /\ session' = session
    /\ stored' = session'
    /\ UNCHANGED << pod_entry, pod_callback, pod_mode, qwen_pc, segments, tts_requests,
                    qwen_return, progress_calls, reactions_added, meta_pc, meta_copy >>
    /\ UNCHANGED << zvars, svars, qvars, rvars, cvars, vvars >>

\* podcast.py 923-956, 1049-1095: the script is written; the synthesizer is called
P_ScriptReady ==
    /\ pod_pc = "a_script"
    /\ \/ /\ pod_pc' = "returned" /\ pod_result' = "error"       \* the script call raised
          /\ session' = Errored(session)
          /\ UNCHANGED << qwen_pc, segments, progress_calls >>
       \/ \E segs \in SegmentLists :
             LET ready == IF pod_entry = "podcast" THEN Progress(300) ELSE Progress(100)
             IN  /\ segments' = segs
                 /\ session' = [session EXCEPT !.progress = ready]
                 /\ progress_calls' = OuterReport(progress_calls, pod_callback, << ready >>)
                 /\ qwen_pc' = "called"
                 /\ pod_pc' = "a_audio"
                 /\ pod_result' = pod_result
    /\ stored' = session'
    /\ UNCHANGED << pod_entry, pod_callback, pod_mode, tts_requests, qwen_return,
                    reactions_added, meta_pc, meta_copy >>
    /\ UNCHANGED << zvars, svars, qvars, rvars, cvars, vvars >>

\* podcast_qwen.py 35-39: generate_podcast_audio called by itself
P_CallQwen ==
    /\ pod_pc = "idle"
    /\ pod_callback' \in BOOLEAN
    /\ segments' \in SegmentLists
    /\ pod_entry' = "qwen"
    /\ qwen_pc' = "called"
    /\ pod_pc' = "direct"
    /\ UNCHANGED << pod_mode, tts_requests, qwen_return, progress_calls, session, stored,
                    reactions_added, meta_pc, meta_copy, pod_result >>
    /\ UNCHANGED << zvars, svars, qvars, rvars, cvars, vvars >>

\* podcast_qwen.py 61-94: filter the segments; none left -> return the empty
\* audio; else report 0.1 and post the dialogue
W_Start ==
    /\ qwen_pc = "called"
    /\ IF Dialogue(segments) = <<>>
       THEN /\ qwen_pc' = "returned"
            /\ qwen_return' = "empty"
            /\ UNCHANGED << tts_requests, progress_calls, session, stored >>
       ELSE /\ qwen_pc' = "a_post"
            /\ tts_requests' = Append(tts_requests, Dialogue(segments))
            /\ progress_calls' =
                  OuterReport(progress_calls, pod_callback,
                              QwenReported(pod_entry, << Progress(100) >>))
            /\ session' =
                  IF pod_entry = "qwen" THEN session
                  ELSE [session EXCEPT !.progress = AudioOverall(pod_entry, Progress(100))]
            /\ stored' = IF pod_entry = "qwen" THEN stored ELSE session'
            /\ UNCHANGED qwen_return
    /\ UNCHANGED << pod_entry, pod_callback, pod_mode, pod_pc, segments, reactions_added,
                    meta_pc, meta_copy, pod_result >>
    /\ UNCHANGED << zvars, svars, qvars, rvars, cvars, vvars >>

\* podcast_qwen.py 91-122: the post is over; report 0.9, decode, report 1.0
W_PostReturns ==
    /\ qwen_pc = "a_post"
    /\ \E out \in { "ok", "bad_payload", "status_error", "request_error" } :
          LET ps == CASE out = "ok" -> << Progress(900), Progress(1000) >>
                      [] out = "bad_payload" -> << Progress(900) >>
                      [] OTHER -> <<>>
          IN  /\ qwen_pc' = IF out = "ok" THEN "returned" ELSE "raised"
              /\ qwen_return' = IF out = "ok" THEN "audio" ELSE qwen_return
              /\ progress_calls' =
                    OuterReport(progress_calls, pod_callback, QwenReported(pod_entry, ps))
              /\ session' =
                    IF pod_entry = "qwen" \/ ps = <<>> THEN session
                    ELSE [session EXCEPT !.progress = AudioOverall(pod_entry, ps[Len(ps)])]
              /\ stored' = IF pod_entry = "qwen" \/ ps = <<>> THEN stored ELSE session'
    /\ UNCHANGED << pod_entry, pod_callback, pod_mode, pod_pc, segments, tts_requests,
                    reactions_added, meta_pc, meta_copy, pod_result >>
    /\ UNCHANGED << zvars, svars, qvars, rvars, cvars, vvars >>

\* podcast.py 958-996, 1097-1133: the synthesizer is over; save the audio
P_AudioDone ==
    /\ pod_pc = "a_audio"
    /\ qwen_pc \in { "returned", "raised" }
    /\ IF qwen_pc = "raised"
       THEN /\ pod_result' = "error"
            /\ session' = Errored(session)
            /\ UNCHANGED progress_calls
       ELSE LET saving == IF pod_entry = "podcast" THEN Progress(900) ELSE Progress(950)
            IN  \E saved \in BOOLEAN :
                   IF saved
                   THEN /\ session' = [session EXCEPT !.status = "ready",
                                                      !.progress = Progress(1000)]
                        /\ progress_calls' =
                              OuterReport(progress_calls, pod_callback,
                                          << saving, Progress(1000) >>)
                        /\ pod_result' = "ok"
                   ELSE /\ session' = [session EXCEPT !.status = "error",
                                                      !.progress = saving]
                        /\ progress_calls' =
                              OuterReport(progress_calls, pod_callback, << saving >>)
                        /\ pod_result' = "error"
    /\ stored' = session'
    /\ pod_pc' = "returned"
    /\ UNCHANGED << pod_entry, pod_callback, pod_mode, qwen_pc, segments, tts_requests,
                    qwen_return, reactions_added, meta_pc, meta_copy >>
    /\ UNCHANGED << zvars, svars, qvars, rvars, cvars, vvars >>

\* generate_podcast_audio called by itself is over
P_QwenDirectEnds ==
    /\ pod_pc = "direct"
    /\ qwen_pc \in { "returned", "raised" }
    /\ pod_pc' = "returned"
    /\ pod_result' = IF qwen_pc = "returned" THEN "ok" ELSE "raised"
    /\ UNCHANGED << pod_entry, pod_callback, pod_mode, qwen_pc, segments, tts_requests,
                    qwen_return, progress_calls, session, stored, reactions_added, meta_pc,
                    meta_copy >>
    /\ UNCHANGED << zvars, svars, qvars, rvars, cvars, vvars >>

\* podcast_storage.py 219-241: add_session_reaction, from another request
P_AddReaction ==
    /\ pod_entry \in { "podcast", "legacy" }
    /\ reactions_added < MaxReactions
    /\ stored' = [stored EXCEPT !.reactions = @ + 1]
    /\ reactions_added' = reactions_added + 1
    /\ UNCHANGED << pod_entry, pod_callback, pod_mode, pod_pc, qwen_pc, segments,
                    tts_requests, qwen_return, progress_calls, session, meta_pc, meta_copy,
                    pod_result >>
    /\ UNCHANGED << zvars, svars, qvars, rvars, cvars, vvars >>

\* podcast.py 132-144: update_session_metadata loads the session and asks for metadata
M_Start ==
    /\ pod_entry \in { "podcast", "legacy" }
    /\ meta_pc = "idle"
    /\ meta_copy' = stored
    /\ meta_pc' = "a_generate"
    /\ UNCHANGED << pod_entry, pod_callback, pod_mode, pod_pc, qwen_pc, segments,
                    tts_requests, qwen_return, progress_calls, session, stored,
                    reactions_added, pod_result >>
    /\ UNCHANGED << zvars, svars, qvars, rvars, cvars, vvars >>

\* podcast.py 144-149: the metadata is there; write title and summary, save
M_Finish ==
    /\ meta_pc = "a_generate"
    /\ meta_copy' = [meta_copy EXCEPT !.title = "generated"]
    /\ stored' = meta_copy'
    /\ meta_pc' = "done"
    /\ UNCHANGED << pod_entry, pod_callback, pod_mode, pod_pc, qwen_pc, segments,
                    tts_requests, qwen_return, progress_calls, session, reactions_added,
                    pod_result >>
    /\ UNCHANGED << zvars, svars, qvars, rvars, cvars, vvars >>

PNext ==
    \/ P_Call
    \/ P_HealthChecked
    \/ P_CharactersLoaded
    \/ P_QuestionsExtracted
    \/ P_ScriptReady
    \/ P_CallQwen
    \/ W_Start
    \/ W_PostReturns
    \/ P_AudioDone
    \/ P_QwenDirectEnds
    \/ P_AddReaction
    \/ M_Start
    \/ M_Finish

(***************************************************************************)
(* Message requests on one conversation: send_message_stream (main.py       *)
(* 171-249) and send_message (main.py 114-168).  A handler runs without     *)
(* interruption up to its first await; the event generator of a stream only *)
(* starts when the response is being sent, after the handler has returned.  *)
(***************************************************************************)
Requests == 1..MaxRequests

RInit ==
    /\ conv_len = 0
    /\ req_kind = [r \in Requests |-> "none"]
    /\ req_pc = [r \in Requests |-> "idle"]
    /\ req_first = [r \in Requests |-> FALSE]
    /\ titles_started = 0
    /\ title_writes = 0

\* main.py 126, 183: is_first_message = len(conversation["messages"]) == 0
IsFirstMessage(len) == len = 0

\* main.py 177-185, 242-249: the stream handler reads the conversation, computes
\* is_first_message and returns the response that will run the generator
R_ReceiveStream(r) ==
    /\ req_pc[r] = "idle"
    /\ req_kind' = [req_kind EXCEPT ![r] = "stream"]
    /\ req_first' = [req_first EXCEPT ![r] = IsFirstMessage(conv_len)]
    /\ req_pc' = [req_pc EXCEPT ![r] = "generator"]
    /\ UNCHANGED << conv_len, titles_started, title_writes >>
    /\ UNCHANGED << zvars, svars, qvars, pvars, cvars, vvars >>

\* main.py 186-207: the generator starts: store the user message, create the
\* title task for a first message, go into the stages
R_Begin(r) ==
    /\ req_pc[r] = "generator"
    /\ conv_len' = conv_len + 1
    /\ titles_started' = IF req_first[r] THEN titles_started + 1 ELSE titles_started
    /\ req_pc' = [req_pc EXCEPT ![r] = "stages"]
    /\ UNCHANGED << req_kind, req_first, title_writes >>
    /\ UNCHANGED << zvars, svars, qvars, pvars, cvars, vvars >>

\* main.py 207-236: the stages are over; with a title task go on to join it,
\* without one store the assistant message; a stage that raised ends the stream
R_StagesEnd(r) ==
    /\ req_pc[r] = "stages"
    /\ \E ok \in BOOLEAN :
          IF ~ok
          THEN req_pc' = [req_pc EXCEPT ![r] = "done"] /\ conv_len' = conv_len
          ELSE IF req_first[r]
               THEN req_pc' = [req_pc EXCEPT ![r] = "join"] /\ conv_len' = conv_len
               ELSE req_pc' = [req_pc EXCEPT ![r] = "done"] /\ conv_len' = conv_len + 1
    /\ UNCHANGED << req_kind, req_first, titles_started, title_writes >>
    /\ UNCHANGED << zvars, svars, qvars, pvars, cvars, vvars >>

\* main.py 222-236: the title task is joined, the title and the assistant
\* message are stored
R_TitleJoined(r) ==
    /\ req_pc[r] = "join"
    /\ title_writes' = title_writes + 1
    /\ conv_len' = conv_len + 1
    /\ req_pc' = [req_pc EXCEPT ![r] = "done"]
    /\ UNCHANGED << req_kind, req_first, titles_started >>
    /\ UNCHANGED << zvars, svars, qvars, pvars, cvars, vvars >>

\* main.py 120-133: send_message reads the conversation, stores the user
\* message and, for a first message, awaits the title generation
R_ReceivePlain(r) ==
    /\ req_pc[r] = "idle"
    /\ req_kind' = [req_kind EXCEPT ![r] = "plain"]
    /\ req_first' = [req_first EXCEPT ![r] = IsFirstMessage(conv_len)]
    /\ conv_len' = conv_len + 1
    /\ titles_started' = IF IsFirstMessage(conv_len) THEN titles_started + 1
                         ELSE titles_started
    /\ req_pc' = [req_pc EXCEPT ![r] = IF IsFirstMessage(conv_len) THEN "a_title"
                                       ELSE "a_council"]
    /\ UNCHANGED title_writes
    /\ UNCHANGED << zvars, svars, qvars, pvars, cvars, vvars >>

\* main.py 133-147: the title is there; store it and run the council
R_PlainTitle(r) ==
    /\ req_pc[r] = "a_title"
    /\ title_writes' = title_writes + 1
    /\ req_pc' = [req_pc EXCEPT ![r] = "a_council"]
    /\ UNCHANGED << conv_len, req_kind, req_first, titles_started >>
    /\ UNCHANGED << zvars, svars, qvars, pvars, cvars, vvars >>

\* main.py 147-168: the council is over; store the assistant message (a
\* council that raised stores nothing)
R_PlainCouncil(r) ==
    /\ req_pc[r] = "a_council"
    /\ \E ok \in BOOLEAN : conv_len' = IF ok THEN conv_len + 1 ELSE conv_len
    /\ req_pc' = [req_pc EXCEPT ![r] = "done"]
    /\ UNCHANGED << req_kind, req_first, titles_started, title_writes >>
    /\ UNCHANGED << zvars, svars, qvars, pvars, cvars, vvars >>

RNext ==
    \/ \E r \in Requests : R_ReceiveStream(r)
    \/ \E r \in Requests : R_Begin(r)
    \/ \E r \in Requests : R_StagesEnd(r)
    \/ \E r \in Requests : R_TitleJoined(r)
    \/ \E r \in Requests : R_ReceivePlain(r)
    \/ \E r \in Requests : R_PlainTitle(r)
    \/ \E r \in Requests : R_PlainCouncil(r)

(***************************************************************************)
(* generate_single_audio (podcast_qwen.py 321-381) and                      *)
(* generate_podcast_audio_cancellable (podcast_qwen.py 125-236).            *)
(***************************************************************************)
\* what one POST to /synthesize can end with
AttemptOutcomes ==
    { "audio",            \* a payload with audio_base64
      "no_audio",         \* a payload without audio: b""
      "timeout",          \* httpx.TimeoutException
      "status_error",     \* httpx.HTTPStatusError from raise_for_status
      "connect_error",    \* httpx.ConnectError
      "bad_payload" }     \* response.json() or b64decode raised

\* podcast_qwen.py 372: except (httpx.TimeoutException, httpx.HTTPStatusError)
Retried(outcome) == outcome \in { "timeout", "status_error" }

CInit ==
    /\ seg_entry = "none"
    /\ c_segments = <<>>
    /\ c_pc = "idle"
    /\ c_idx = 0
    /\ cancelled = FALSE
    /\ chunks = {}
    /\ synth_starts = <<>>
    /\ c_result = "none"
    /\ g_pc = "idle"
    /\ g_max_retries = 0
    /\ g_attempt = 0
    /\ g_requests = 0
    /\ g_sleeps = 0
    /\ g_failures = <<>>
    /\ g_result = "none"

\* the state of a generate_single_audio call that has just been made
SingleCalled(max_retries) ==
    /\ g_pc' = "loop"
    /\ g_max_retries' = max_retries
    /\ g_attempt' = 0
    /\ g_requests' = 0
    /\ g_sleeps' = 0
    /\ g_failures' = <<>>
    /\ g_result' = "none"

\* podcast_qwen.py 321-347: generate_single_audio called by itself
G_CallSingle ==
    /\ seg_entry = "none"
    /\ ~cancelled
    /\ seg_entry' = "single"
    /\ \E m \in 0..3 : SingleCalled(m)
    /\ UNCHANGED << c_segments, c_pc, c_idx, cancelled, chunks, synth_starts, c_result >>
    /\ UNCHANGED << zvars, svars, qvars, pvars, rvars, vvars >>

\* podcast_qwen.py 348-360, 380-381: the next attempt posts its request; after
\* the last one the call raises
G_Attempt ==
    /\ g_pc = "loop"
    /\ IF g_attempt < g_max_retries
       THEN /\ g_requests' = g_requests + 1
            /\ g_pc' = "a_post"
            /\ UNCHANGED g_result
       ELSE /\ g_pc' = "raised"
            /\ g_result' = "raised"
            /\ UNCHANGED g_requests
    /\ UNCHANGED << g_max_retries, g_attempt, g_sleeps, g_failures >>
    /\ UNCHANGED << seg_entry, c_segments, c_pc, c_idx, cancelled, chunks, synth_starts,
                    c_result >>
    /\ UNCHANGED << zvars, svars, qvars, pvars, rvars, vvars >>

\* podcast_qwen.py 350-377: the post is over
G_PostReturns ==
    /\ g_pc = "a_post"
    /\ \E out \in AttemptOutcomes :
          CASE out \in { "audio", "no_audio" } ->
                  /\ g_pc' = "returned"
                  /\ g_result' = out
                  /\ UNCHANGED << g_attempt, g_sleeps, g_failures >>
            [] Retried(out) ->
                  /\ g_failures' = Append(g_failures, out)
                  /\ IF g_attempt < g_max_retries - 1
                     THEN g_pc' = "a_sleep" /\ g_sleeps' = g_sleeps + 1
                                            /\ g_attempt' = g_attempt
                     ELSE g_pc' = "loop" /\ g_sleeps' = g_sleeps
                                         /\ g_attempt' = g_attempt + 1
                  /\ UNCHANGED g_result
            [] OTHER ->
                  /\ g_failures' = Append(g_failures, out)
                  /\ g_pc' = "raised"
                  /\ g_result' = "raised"
                  /\ UNCHANGED << g_attempt, g_sleeps >>
    /\ UNCHANGED << g_max_retries, g_requests >>
    /\ UNCHANGED << seg_entry, c_segments, c_pc, c_idx, cancelled, chunks, synth_starts,
                    c_result >>
    /\ UNCHANGED << zvars, svars, qvars, pvars, rvars, vvars >>

\* podcast_qwen.py 377: asyncio.sleep(wait_time) is over
G_SleepEnds ==
    /\ g_pc = "a_sleep"
    /\ g_attempt' = g_attempt + 1
    /\ g_pc' = "loop"
    /\ UNCHANGED << g_max_retries, g_requests, g_sleeps, g_failures, g_result >>
    /\ UNCHANGED << seg_entry, c_segments, c_pc, c_idx, cancelled, chunks, synth_starts,
                    c_result >>
    /\ UNCHANGED << zvars, svars, qvars, pvars, rvars, vvars >>

\* podcast_qwen.py 150-166: the call filters the segments; none left -> return
\* the empty audio, else go into the loop
C_CallCancellable ==
    /\ seg_entry = "none"
    /\ seg_entry' = "cancellable"
    /\ \E segs \in SegmentLists :
          /\ c_segments' = segs
          /\ IF Dialogue(segs) = <<>>
             THEN c_pc' = "returned" /\ c_result' = "empty" /\ c_idx' = c_idx
             ELSE c_pc' = "loop" /\ c_result' = c_result /\ c_idx' = 1
    /\ UNCHANGED << cancelled, chunks, synth_starts, g_pc, g_max_retries, g_attempt,
                    g_requests, g_sleeps, g_failures, g_result >>
    /\ UNCHANGED << zvars, svars, qvars, pvars, rvars, vvars >>

\* the session is marked cancelled by another request, before or during the call
C_Cancel ==
    /\ seg_entry # "single"
    /\ c_pc \notin { "returned", "raised" }
    /\ ~cancelled
    /\ cancelled' = TRUE
    /\ UNCHANGED << seg_entry, c_segments, c_pc, c_idx, chunks, synth_starts, c_result,
                    g_pc, g_max_retries, g_attempt, g_requests, g_sleeps, g_failures,
                    g_result >>
    /\ UNCHANGED << zvars, svars, qvars, pvars, rvars, vvars >>

\* podcast_qwen.py 168-200: the top of the loop for one segment: raise when the
\* session is cancelled, else call generate_single_audio for it
C_NextSegment ==
    /\ c_pc = "loop"
    /\ c_idx <= Len(Dialogue(c_segments))
    /\ IF cancelled
       THEN /\ c_pc' = "raised"
            /\ c_result' = "cancelled"
            /\ UNCHANGED << synth_starts, g_pc, g_max_retries, g_attempt, g_requests,
                            g_sleeps, g_failures, g_result >>
       ELSE /\ c_pc' = "a_segment"
            /\ synth_starts' = Append(synth_starts,
                                      [place |-> Dialogue(c_segments)[c_idx].id,
                                       marked |-> cancelled])
            /\ SingleCalled(3)
            /\ UNCHANGED c_result
    /\ UNCHANGED << seg_entry, c_segments, c_idx, cancelled, chunks >>
    /\ UNCHANGED << zvars, svars, qvars, pvars, rvars, vvars >>

\* podcast_qwen.py 194-217: generate_single_audio is over: keep its audio, or
\* log its exception, and go on with the next segment
C_SegmentDone ==
    /\ c_pc = "a_segment"
    /\ g_pc \in { "returned", "raised" }
    /\ chunks' = IF g_result = "audio" THEN chunks \cup { Dialogue(c_segments)[c_idx].id }
                 ELSE chunks
    /\ c_idx' = c_idx + 1
    /\ c_pc' = "loop"
    /\ g_pc' = "idle"
    /\ UNCHANGED << seg_entry, c_segments, cancelled, synth_starts, c_result,
                    g_max_retries, g_attempt, g_requests, g_sleeps, g_failures, g_result >>
    /\ UNCHANGED << zvars, svars, qvars, pvars, rvars, vvars >>

\* podcast_qwen.py 219-236: after the loop: raise when the session is cancelled,
\* return the empty audio without chunks, else the combined audio
C_Finish ==
    /\ c_pc = "loop"
    /\ c_idx > Len(Dialogue(c_segments))
    /\ IF cancelled
       THEN c_pc' = "raised" /\ c_result' = "cancelled"
       ELSE c_pc' = "returned" /\ c_result' = IF chunks = {} THEN "empty" ELSE "audio"
    /\ UNCHANGED << seg_entry, c_segments, c_idx, cancelled, chunks, synth_starts,
                    g_pc, g_max_retries, g_attempt, g_requests, g_sleeps, g_failures,
                    g_result >>
    /\ UNCHANGED << zvars, svars, qvars, pvars, rvars, vvars >>

CNext ==
    \/ G_CallSingle
    \/ G_Attempt
    \/ G_PostReturns
    \/ G_SleepEnds
    \/ C_CallCancellable
    \/ C_Cancel
    \/ C_NextSegment
    \/ C_SegmentDone
    \/ C_Finish

(***************************************************************************)
(* The voice store of the TTS service (services/qwen3-tts/server.py).       *)
(***************************************************************************)
\* server.py 106-116: id and name of the built-in voices
PREBUILT_VOICES ==
    { [id |-> "aiden", name |-> "Aiden"],
      [id |-> "dylan", name |-> "Dylan"],
      [id |-> "eric", name |-> "Eric"],
      [id |-> "ryan", name |-> "Ryan"],
      [id |-> "uncle_fu", name |-> "Uncle Fu"],
      [id |-> "serena", name |-> "Serena"],
      [id |-> "vivian", name |-> "Vivian"],
      [id |-> "ono_anna", name |-> "Ono Anna"],
      [id |-> "sohee", name |-> "Sohee"] }

\* server.py 1307, 1399: the ids f"clone_{...}" and f"design_{...}" can take
CloneIds == { "clone_1", "clone_2" }

DesignIds == { "design_1" }

\* the voice_id of a delete request
DeleteRequests ==
    { "aiden", "Aiden", "serena", "Uncle Fu", "ghost" } \cup CloneIds \cup DesignIds

\* server.py 1557: any(v["id"] == voice_id for v in PREBUILT_VOICES)
IsPrebuilt(voice_id) == \E v \in PREBUILT_VOICES : v.id = voice_id

VInit ==
    /\ voices = {}
    /\ data_files = {}
    /\ audio_files = {}
    /\ minted = {}
    /\ v_request = "none"
    /\ v_status = 0
    /\ v_detail = "none"

\* server.py 1284-1374: POST /voices/clone: write the reference audio, the voice
\* data and the metadata; a failure on the way answers 500 and leaves what was written
V_Clone ==
    /\ \E id \in CloneIds \ minted :
          /\ minted' = minted \cup { id }
          /\ \E reached \in { "nothing", "audio", "data", "metadata" } :
                /\ audio_files' = IF reached # "nothing" THEN audio_files \cup { id }
                                  ELSE audio_files
                /\ data_files' = IF reached \in { "data", "metadata" }
                                 THEN data_files \cup { id } ELSE data_files
                /\ voices' = IF reached = "metadata" THEN voices \cup { id } ELSE voices
    /\ UNCHANGED << v_request, v_status, v_detail >>
    /\ UNCHANGED << zvars, svars, qvars, pvars, rvars, cvars >>

\* server.py 1377-1446: POST /voices/design: write the voice data and the metadata
V_Design ==
    /\ \E id \in DesignIds \ minted :
          /\ minted' = minted \cup { id }
          /\ \E reached \in { "nothing", "data", "metadata" } :
                /\ data_files' = IF reached # "nothing" THEN data_files \cup { id }
                                 ELSE data_files
                /\ voices' = IF reached = "metadata" THEN voices \cup { id } ELSE voices
    /\ UNCHANGED << audio_files, v_request, v_status, v_detail >>
    /\ UNCHANGED << zvars, svars, qvars, pvars, rvars, cvars >>

\* server.py 1549-1581: DELETE /voices/{voice_id}
V_Delete ==
    /\ \E voice_id \in DeleteRequests :
          /\ v_request' = voice_id
          /\ CASE IsPrebuilt(voice_id) ->
                     /\ v_status' = 400
                     /\ v_detail' = "Cannot delete prebuilt voices"
                     /\ UNCHANGED << voices, data_files, audio_files >>
               [] ~IsPrebuilt(voice_id) /\ voice_id \notin voices ->
                     /\ v_status' = 404
                     /\ v_detail' = "Voice not found"
                     /\ UNCHANGED << voices, data_files, audio_files >>
               [] OTHER ->
                     /\ data_files' = data_files \ { voice_id }
                     /\ audio_files' = audio_files \ { voice_id }
                     /\ \E written \in BOOLEAN :      \* save_voices_metadata logs its failure
                           voices' = IF written THEN voices \ { voice_id } ELSE voices
                     /\ v_status' = 200
                     /\ v_detail' = "none"
    /\ UNCHANGED minted
    /\ UNCHANGED << zvars, svars, qvars, pvars, rvars, cvars >>

VNext ==
    \/ V_Clone
    \/ V_Design
    \/ V_Delete

vars == << zvars, svars, qvars, pvars, rvars, cvars, vvars >>

Init == ZInit /\ SInit /\ QInit /\ PInit /\ RInit /\ CInit /\ VInit

\* generate_zettels_deliberation alone
SpecSynth == Init /\ [][ZNext]_vars

\* the streamed deliberation alone
StreamInit == Init /\ council_arg = [given |-> FALSE, list |-> <<>>]

SpecStream == StreamInit /\ [][SNext]_vars

\* one query_model call alone
QueryInit == Init /\ council_arg = [given |-> FALSE, list |-> <<>>]

SpecQuery == QueryInit /\ [][QNext]_vars

\* one podcast generation alone
PodcastInit == Init /\ council_arg = [given |-> FALSE, list |-> <<>>]

SpecPodcast == PodcastInit /\ [][PNext]_vars

\* the message requests on one conversation alone
RequestsInit == Init /\ council_arg = [given |-> FALSE, list |-> <<>>]

SpecRequests == RequestsInit /\ [][RNext]_vars

\* the segment-by-segment synthesis alone
SegmentsInit == Init /\ council_arg = [given |-> FALSE, list |-> <<>>]

SpecSegments == SegmentsInit /\ [][CNext]_vars

\* the voice store alone
VoicesInit == Init /\ council_arg = [given |-> FALSE, list |-> <<>>]

SpecVoices == VoicesInit /\ [][VNext]_vars

(***************************************************************************)
(* Properties of the streamed deliberation (SpecStream).                    *)
(***************************************************************************)
IsPrefix(a, b) == Len(a) <= Len(b) /\ \A i \in 1..Len(a) : a[i] = b[i]

Last(q) == q[Len(q)]

TerminalEvents == { "complete", "error" }

\* the user message of this request is the first message of the conversation
FirstOfConversation == messages # <<>> /\ messages[1] = UserMessage("request")

SuccessfulOrder ==
    << "stage1_start", "stage1_complete", "stage2_start", "stage2_complete",
       "stage3_start", "stage3_complete" >>
        \o (IF FirstOfConversation THEN << "title_complete" >> ELSE <<>>)
        \o << "complete" >>

\* C1: as long as no step has raised, the events emitted so far are a prefix
\* of stage1_start, stage1_complete, stage2_start, stage2_complete,
\* stage3_start, stage3_complete, [title_complete], complete, with
\* title_complete exactly when the message is the conversation's first; a
\* generator that ran to its end without raising has emitted all of it
C1_StreamingOrder ==
    "error" \notin Range(events) =>
        /\ IsPrefix(events, SuccessfulOrder)
        /\ spc \in { "y_complete", "closed" } => events = SuccessfulOrder

C1_Witness ==
    /\ spc = "closed"
    /\ Len(events) = 8
    /\ events[7] = "title_complete"
    /\ events[8] = "complete"

\* C2: a generator that ran to its end (it was not cancelled) has emitted a
\* terminal event; at any time at most one terminal event has been emitted
\* and it is the last event; a step that raised has produced the error event
C2_OneTerminalEvent ==
    /\ Cardinality({ i \in 1..Len(events) : events[i] \in TerminalEvents }) <= 1
    /\ \A i \in 1..Len(events) : events[i] \in TerminalEvents => i = Len(events)
    /\ spc = "y_error" => events # <<>> /\ Last(events) = "error"
    /\ spc = "y_complete" => events # <<>> /\ Last(events) = "complete"
    /\ spc = "closed" => events # <<>> /\ Last(events) \in TerminalEvents

C2_Witness ==
    /\ spc = "closed"
    /\ Last(events) = "error"
    /\ "stage2_complete" \in Range(events)

\* every council model failed Stage 1 of the streamed deliberation
StreamAllFailed == s_stage1 # <<>> /\ \A i \in 1..Len(s_stage1) : ~s_stage1[i].ok

\* C3: when every council model fails Stage 1 the stream goes no further than
\* a fatal error: no stage2_start, no stage3_start, no ranking query and no
\* chairman query, and the only event after stage1_complete is error
C3_AllFailFatal ==
    StreamAllFailed =>
        /\ "stage2_start" \notin Range(events)
        /\ "stage3_start" \notin Range(events)
        /\ ranking_queries = 0
        /\ chairman_queries = 0
        /\ "complete" \notin Range(events)

(***************************************************************************)
(* Properties of generate_zettels_deliberation (SpecSynth).                 *)
(***************************************************************************)
\* the Stage-1 and Stage-2 responses as query_models_parallel returned them
Stage1Dict == ZipDict(council_models, stage1_calls)

Stage2Dict == ZipDict(council_models, stage2_calls)

Stage1Joined == zpc \notin { "called", "stage1" }

Stage2Entered == stage2_calls # <<>>

ChairmanAsked == chairman_call.st # "idle"

\* the models whose Stage-1 query returned a response / returned None
Stage1Succeeded == { e.model : e \in { d \in Range(Stage1Dict) : d.response.ok } }

Stage1Failed == { e.model : e \in { d \in Range(Stage1Dict) : ~d.response.ok } }

AllStage1QueriesFailed ==
    zpc # "called" /\ \A i \in 1..Len(stage1_calls) : stage1_calls[i] = Failure

\* C4: when every Stage-1 query failed, no ranking query and no chairman
\* query is ever issued, and once the join is over the call has returned the
\* failure result: empty notes, stage2, label_to_model and aggregate_rankings,
\* the error text as stage3_raw, and a stage1 with one failed entry per model
C4_AllFailedResult ==
    AllStage1QueriesFailed =>
        /\ stage2_calls = <<>>
        /\ chairman_call = Idle
        /\ Stage1Joined =>
              /\ zpc = "returned"
              /\ zresult.notes = <<>>
              /\ zresult.stage2 = <<>>
              /\ zresult.label_to_model = <<>>
              /\ zresult.aggregate_rankings = <<>>
              /\ zresult.stage3_raw = AllFailedText
              /\ { e.model : e \in Range(zresult.stage1) } = Range(council_models)
              /\ \A i \in 1..Len(zresult.stage1) :
                    zresult.stage1[i].notes = <<>> /\ zresult.stage1[i].raw = ErrorRaw

C4_Witness ==
    /\ AllStage1QueriesFailed
    /\ zpc = "returned"
    /\ Len(zresult.stage1) = 2

\* C5: when the chairman query failed the call still returns, and the result
\* holds stage1, stage2, label_to_model and aggregate_rankings as they were
\* when Stage 2 finished, the error placeholder as stage3_raw and no notes
C5_ChairmanIsolation ==
    chairman_call = Failure =>
        /\ zpc \in { "stage3", "returned" }
        /\ zpc = "returned" =>
              /\ zresult.stage1 = atStage2End.stage1
              /\ zresult.stage2 = atStage2End.stage2
              /\ zresult.label_to_model = atStage2End.label_to_model
              /\ zresult.aggregate_rankings = atStage2End.aggregate_rankings
              /\ zresult.stage1 # <<>>
              /\ zresult.stage2 # <<>>
              /\ zresult.label_to_model # <<>>
              /\ zresult.stage3_raw = ChairmanFailedText
              /\ zresult.notes = <<>>

C5_Witness ==
    /\ chairman_call = Failure
    /\ zpc = "returned"
    /\ zresult.aggregate_rankings # <<>>
    /\ \E i \in 1..Len(zresult.stage1) : zresult.stage1[i].notes # <<>>

\* C6: each stage has one call per entry of the model list; a Stage-2 call
\* exists only when every Stage-1 call is done, and the chairman call only
\* when every Stage-2 call is done, whether the calls failed or not
C6_StageBarriers ==
    /\ zpc # "called" => Len(stage1_calls) = Len(council_models)
    /\ Stage2Entered =>
          /\ Len(stage2_calls) = Len(council_models)
          /\ \A i \in 1..Len(stage1_calls) : stage1_calls[i].st = "done"
    /\ ChairmanAsked =>
          /\ Stage2Entered
          /\ \A i \in 1..Len(stage2_calls) : stage2_calls[i].st = "done"

C6_Witness ==
    /\ chairman_call.st = "running"
    /\ \E i \in 1..Len(stage1_calls) : stage1_calls[i] = Failure
    /\ \E i \in 1..Len(stage2_calls) : stage2_calls[i] = Failure

IsInjective(q) == \A i, j \in 1..Len(q) : q[i] = q[j] => i = j

\* C7: the label map built at Stage-2 entry has as many labels as there are
\* models whose Stage-1 query succeeded and maps them one-to-one onto those
\* models; a model whose Stage-1 query failed has no label
C7_LabelBijection ==
    Stage2Entered =>
        /\ Len(label_to_model) = Cardinality(Stage1Succeeded)
        /\ Range(label_to_model) = Stage1Succeeded
        /\ IsInjective(label_to_model)

\* C8: when some but not all Stage-1 queries failed, the responses block has
\* one entry per surviving model and none for a failed one, and no entry of
\* aggregate_rankings names a model that failed Stage 1
C8_PartialFailure ==
    (Stage2Entered /\ Stage1Failed # {} /\ Stage1Succeeded # {}) =>
        /\ Len(ranking_prompt) = Cardinality(Stage1Succeeded)
        /\ \A i \in 1..Len(ranking_prompt) :
              label_to_model[ranking_prompt[i].label] \in Stage1Succeeded
        /\ \A k \in 1..Len(aggregate_rankings) :
              aggregate_rankings[k].model \notin Stage1Failed

\* a ranking text without a numbered line after its last marker
NoRecognizableRanking(text) ==
    LET m == LastIndex(text, Marker)
    IN  m = 0 \/ \A i \in (m + 1)..Len(text) : text[i].k # "R"

WithoutEntry(q, i) == [j \in 1..(Len(q) - 1) |-> IF j < i THEN q[j] ELSE q[j + 1]]

\* the raters that answered with a text that has no recognizable ranking
UnparsedRaters ==
    { i \in 1..Len(Stage2Dict) :
         /\ Stage2Dict[i].response.ok
         /\ ~Stage2Dict[i].response.isnull
         /\ NoRecognizableRanking(Stage2Dict[i].response.text) }

\* C9: a rater whose text has no recognizable ranking does not stop Stage 2
\* (only a null content does); once the chairman is asked, its Stage-2 entry
\* has an empty parsed order and its raw text, and the aggregate ranking is
\* the one of the other raters' entries: it gave no vote to any model
C9_ParseFailureIsLocal ==
    /\ (zpc = "raised" /\ Stage2Entered /\ ~ChairmanAsked) => RaisesOnNull(Stage2Dict)
    /\ ChairmanAsked =>
          \A i \in UnparsedRaters :
              /\ stage2_results[i].model = Stage2Dict[i].model
              /\ stage2_results[i].parsed_ranking = <<>>
              /\ stage2_results[i].ranking = Stage2Dict[i].response.text
              /\ aggregate_rankings =
                    calculate_aggregate_rankings(WithoutEntry(stage2_results, i),
                                                 label_to_model)

C9_Witness ==
    /\ zpc = "returned"
    /\ chairman_call.ok
    /\ UnparsedRaters # {}
    /\ aggregate_rankings # <<>>
    /\ zresult.notes # <<>>

\* C10: a rater whose Stage-2 query failed has, once the chairman is asked,
\* given no vote (its parsed order is empty) and has no evaluation among the
\* Stage-2 parts of the chairman prompt
C10_FailedRaterContributesNothing ==
    ChairmanAsked =>
        \A i \in 1..Len(Stage2Dict) :
            ~Stage2Dict[i].response.ok =>
                /\ stage2_results[i].parsed_ranking = <<>>
                /\ \A k \in 1..Len(chairman_prompt.stage2_text) :
                      chairman_prompt.stage2_text[k].model # Stage2Dict[i].model

(***************************************************************************)
(* Aggregation, cancellation, title task, exceptions.                       *)
(***************************************************************************)
\* the raters whose parsed order holds a label
VotersOf(stage2, label) ==
    { i \in 1..Len(stage2) : label \in Range(stage2[i].parsed_ranking) }

\* the place of a model in Stage-1 order
Stage1Place(m) == CHOOSE i \in 1..Len(stage1_results) : stage1_results[i].model = m

C12_NothingStoredOnCancel ==
    (spc = "cancelled" /\ "complete" \notin Range(events)) =>
        /\ AssistantMessage("request") \notin Range(messages)
        /\ "title_complete" \notin Range(events)
        /\ title # "generated"

\* C13: a stream whose title task failed, closed after stage3_complete, has
\* stored the assistant message and ended with complete
C13_TitleFailureNonFatal ==
    (title_task = "failed" /\ spc = "closed" /\ "stage3_complete" \in Range(events)) =>
        /\ Last(events) = "complete"
        /\ AssistantMessage("request") \in Range(messages)
        /\ title = "New Conversation"

\* C14: generate_zettels_deliberation never raises
C14_NeverRaises == zpc # "raised"

\* C15: once the call has started, Stage 1 queries at least one model: an
\* empty council_models argument is replaced by the default pool
C15_EmptyListSubstituted ==
    zpc # "called" =>
        /\ Len(stage1_calls) >= 1
        /\ (council_arg.given /\ council_arg.list = <<>>) => council_models = DefaultCouncil

\* C17: a call that returned after a Stage-1 query gave a response has asked
\* the raters and the chairman; the failed outcome is that of a council whose
\* every Stage-1 query failed
C17_FailedOnlyWhenAllFailed ==
    (zpc = "returned" /\ \E i \in 1..Len(stage1_calls) : stage1_calls[i] # Failure) =>
        /\ Stage2Entered
        /\ ChairmanAsked
        /\ zresult.stage3_raw # AllFailedText

\* C18: once Stage 2 is processed, every label of every rater's parsed order
\* is a label of the label map
C18_LabelsResolve ==
    ChairmanAsked =>
        \A i \in 1..Len(stage2_results) :
            Range(stage2_results[i].parsed_ranking) \subseteq DOMAIN label_to_model

\* how many times the assistant message of this request is in the store
AssistantStored ==
    Cardinality({ i \in 1..Len(messages) : messages[i] = AssistantMessage("request") })

\* C19: the assistant message of the request is stored at most once, only
\* after stage3_complete was emitted and in a stream without error; it is in
\* the store when complete is emitted; a stream with an error event has
\* stored none
C19_AssistantStoredOnce ==
    /\ AssistantStored <= 1
    /\ AssistantStored = 1 =>
          /\ "stage3_complete" \in Range(events)
          /\ "error" \notin Range(events)
    /\ "complete" \in Range(events) => AssistantStored = 1
    /\ "complete" \notin Range(events) => AssistantStored = 0
    /\ "error" \in Range(events) => AssistantStored = 0

C19_Witness ==
    /\ spc = "closed"
    /\ Last(events) = "complete"
    /\ "title_complete" \in Range(events)
    /\ AssistantStored = 1

(***************************************************************************)
(* Properties of query_model (SpecQuery) and of podcast progress            *)
(* (SpecPodcast).                                                           *)
(***************************************************************************)
\* the POST came back with a success status and a body that has choices[0].message
UpstreamUsable ==
    /\ api_key = "key"
    /\ upstream.kind = "response"
    /\ upstream.status < 400
    /\ upstream.body.shape = "message"

\* C16: query_model lets no exception out for any upstream outcome (only the
\* caller's own cancellation leaves it), and a call that is over has returned
\* None exactly when the key was missing, the post timed out or failed in
\* transport, the status was an error, or the payload lacked choices[0].message
C16_QueryModelNeverRaises ==
    /\ qpc = "raised" => exc = "CancelledError"
    /\ qpc = "returned" => (q_return = Failure <=> ~UpstreamUsable)
    /\ (qpc = "returned" /\ UpstreamUsable) => q_return = QueryResult(upstream.body)

C16_Witness ==
    /\ qpc = "returned"
    /\ q_return = Failure
    /\ api_key = "key"
    /\ upstream.kind = "response"
    /\ upstream.status = 200
    /\ upstream.body.shape = "empty_choices"
    /\ exc = "IndexError"

\* a <= b for two progress values
ProgressLeq(a, b) == a.v < b.v \/ (a.v = b.v /\ a.ulp <= b.ulp)

\* C20: in one run of podcast generation, whichever of the three functions
\* was called, no progress value handed to progress_callback is smaller than
\* the one handed to it before, and all lie between 0 and 1
C20_ProgressNeverDecreases ==
    /\ \A i \in 1..(Len(progress_calls) - 1) :
          ProgressLeq(progress_calls[i], progress_calls[i + 1])
    /\ \A i \in 1..Len(progress_calls) :
          ProgressLeq(Progress(0), progress_calls[i]) /\ ProgressLeq(progress_calls[i], Progress(1000))

C20_Witness ==
    /\ pod_entry = "podcast"
    /\ pod_result = "ok"
    /\ Len(progress_calls) = 8
    /\ progress_calls[6] = [v |-> 900, ulp |-> 0 - 1]
    /\ progress_calls[7] = Progress(900)

(***************************************************************************)
(* Result lists, completion order, the title task at the end of a stream.   *)
(***************************************************************************)
\* the models of a result list, in order
ModelsOf(results) == [i \in 1..Len(results) |-> results[i].model]

\* C25: after the Stage-1 join the Stage-1 result list has one entry per
\* entry of the council model list, in list order, and so has the Stage-2
\* result list after the Stage-2 join
C25_OneEntryPerListEntry ==
    /\ (Stage1Joined /\ zpc # "raised") => ModelsOf(stage1_results) = council_models
    /\ ChairmanAsked => ModelsOf(stage2_results) = council_models

\* what the Stage-1 and Stage-2 calls returned, by place in the model list
Stage1Expected == Stage1Results(ZipDict(council_models, stage1_calls))

Stage2Expected == Stage2Results(ZipDict(council_models, stage2_calls))

GenerationIdsExpected ==
    GenerationIds(ZipDict(council_models, stage1_calls))
        \o (IF Stage2Entered THEN GenerationIds(ZipDict(council_models, stage2_calls)) ELSE <<>>)
        \o (IF chairman_call.ok /\ chairman_call.gid # 0 THEN << chairman_call.gid >> ELSE <<>>)

C30_TitleTaskAttended ==
    spc \in { "closed", "cancelled" } => title_task # "running"

(***************************************************************************)
(* Properties of the dialogue request and of the podcast session            *)
(* (SpecPodcast).                                                           *)
(***************************************************************************)
\* the places of the segments that have words
WordPlaces == { i \in 1..Len(segments) : segments[i] = "words" }

QwenStarted == qwen_pc \notin { "idle", "called" }

\* C21: generate_podcast_audio posts at most one dialogue; the dialogue holds
\* exactly the segments whose text is not blank, each once, in their original
\* order; when no segment has text it posts nothing and returns the empty
\* audio (b"", no word timings, duration 0)
C21_OnlyNonBlankSent ==
    /\ Len(tts_requests) <= 1
    /\ \A r \in 1..Len(tts_requests) :
          LET d == tts_requests[r]
          IN  /\ { d[k].id : k \in 1..Len(d) } = WordPlaces
              /\ \A k \in 1..Len(d) : d[k].text = segments[d[k].id]
              /\ \A k \in 1..(Len(d) - 1) : d[k].id < d[k + 1].id
    /\ (QwenStarted /\ WordPlaces # {}) => Len(tts_requests) = 1
    /\ (QwenStarted /\ WordPlaces = {}) =>
          /\ tts_requests = <<>>
          /\ qwen_pc = "returned"
          /\ qwen_return = "empty"

C21_Witness ==
    /\ qwen_pc = "returned"
    /\ qwen_return = "audio"
    /\ segments = << "blank", "words" >>
    /\ tts_requests = << << [id |-> 2, text |-> "words"] >> >>

\* C27: when generate_podcast has returned, the stored status is not
\* "generating": it is "ready" after a return without error, "error" or the
\* status before the call after a return with an error
C27_StatusNotLeftGenerating ==
    (pod_entry = "podcast" /\ pod_pc = "returned" /\ meta_pc = "idle") =>
        /\ stored.status # "generating"
        /\ pod_result = "ok" => stored.status = "ready"
        /\ pod_result = "error" => stored.status \in { "error", NewSession.status }

\* C28: when generate_podcast has returned, the stored session holds every
\* reaction other requests added and the title update_session_metadata wrote
C28_ConcurrentUpdatesKept ==
    (pod_entry = "podcast" /\ pod_pc = "returned") =>
        /\ meta_pc = "idle" => stored.reactions = reactions_added
        /\ meta_pc = "done" => stored.title = "generated"

(***************************************************************************)
(* Properties of the voice store (SpecVoices), of the segment-by-segment    *)
(* synthesis (SpecSegments) and of the message requests (SpecRequests).     *)
(***************************************************************************)
\* the voice_id is the id or the name of a built-in voice
NamesPrebuilt(voice_id) ==
    \E v \in PREBUILT_VOICES : v.id = voice_id \/ v.name = voice_id

\* C22: a delete request that names a built-in voice is answered 400 with a
\* detail about prebuilt voices
C22_PrebuiltNotDeletable ==
    (v_request # "none" /\ NamesPrebuilt(v_request)) =>
        /\ v_status = 400
        /\ v_detail = "Cannot delete prebuilt voices"

\* C23: no generate_single_audio call is started under the cancellation mark,
\* and a call of generate_podcast_audio_cancellable that ended with the
\* session marked cancelled raised PodcastCancelledException
C23_CancelStopsSynthesis ==
    /\ \A k \in 1..Len(synth_starts) : ~synth_starts[k].marked
    /\ c_pc = "raised" => c_result = "cancelled"
    /\ (seg_entry = "cancellable" /\ c_pc \in { "returned", "raised" } /\ cancelled) =>
          c_pc = "raised"

\* C24: generate_single_audio posts at most max_retries requests, returns at
\* its first successful one, has slept once after each failed attempt but the
\* last, and has raised only after max_retries attempts failed with a timeout
\* or an HTTP status error
C24_RetryDiscipline ==
    seg_entry = "single" =>
        /\ g_requests <= g_max_retries
        /\ g_pc = "returned" =>
              /\ g_requests = Len(g_failures) + 1
              /\ g_sleeps = Len(g_failures)
        /\ g_pc = "raised" =>
              /\ g_requests = g_max_retries
              /\ Len(g_failures) = g_max_retries
              /\ \A k \in 1..Len(g_failures) : g_failures[k] \in { "timeout", "status_error" }
              /\ g_sleeps = (IF g_max_retries = 0 THEN 0 ELSE g_max_retries - 1)

\* C29: on one conversation at most one title generation is started and at
\* most one title is stored, whatever the interleaving of the requests
C29_TitleStartedOnce ==
    /\ titles_started <= 1
    /\ title_writes <= 1

====
